---- MODULE Spec2Model ----
(***************************************************************************)
(* namedviz: the configuration pipeline                                    *)
(*   discover -> load_and_parse -> extract -> resolve_relationships ->     *)
(*   build_graph                                                           *)
(* modelled as a state machine.  Parse results are the items pyparsing     *)
(* hands to the extractor (one record per zone/options/acl/view block,     *)
(* carrying what item.get(<key>, []) returns).                             *)
(***************************************************************************)
EXTENDS Integers, Sequences, FiniteSets, TLC

VARIABLES
    config_path,    \* extract_all / discover_configs: the path given
    pending,        \* discover_configs: the entries the running loop has yet to visit
    configs,        \* extract_all: the dict discover_configs returned (server name -> file path)
    servers,        \* extract_all: the ServerConfig list built so far
    config,         \* extract_server_config: the ServerConfig being filled (<<>> when none)
    view_ctx,       \* _extract_from_results: view_name and the view_* fallback lists
    results,        \* the parse results (top-level blocks in order)
    pos,            \* index of the next top-level item of results
    vpos,           \* index of the next item of the view being walked
    relationships,  \* build_graph: the list resolve_relationships returned
    graph,          \* build_graph: the GraphData built
    pc,             \* where the pipeline stands
    fs,             \* the files on disk: path -> content (chunks in order)
    stack,          \* _resolve_includes: the calls in progress, innermost last
    seen,           \* _resolve_includes: the real paths entered so far
    logs,           \* load_and_parse: the diagnostics
    text,           \* load_and_parse: the unified text _resolve_includes returned
    unknown_warnings, \* grammar.py: the module-level _unknown_warnings list
    threads,        \* the request threads that parse at the same time
    store,          \* per worker: app.config["SESSION_STORE"] (sid -> SessionData)
    registry,       \* the files of SESSION_REGISTRY_DIR (sid -> upload_dir, mtime)
    dirs,           \* the upload directories on disk (path -> what was uploaded)
    now,            \* time.time(), in ticks
    client,         \* per client: its cookie and the last response it received
    sweep,          \* per worker: where _session_cleanup_loop stands
    next_sid,       \* the number of session ids uuid.uuid4() has given out, plus one
    accessed        \* sid -> the time of the last request that carried it, in a set

pipevars == <<configs, servers, config, view_ctx, results, pos, vpos,
              relationships, graph, pc>>

loadvars == <<fs, stack, seen, logs, text, unknown_warnings>>

discvars == <<config_path, pending>>

sessvars == <<store, registry, dirs, now, client, sweep, next_sid, accessed>>

webvars == <<threads, sessvars>>

vars == <<configs, servers, config, view_ctx, results, pos, vpos,
          relationships, graph, pc, fs, stack, seen, logs, text,
          unknown_warnings, config_path, pending, threads, store, registry,
          dirs, now, client, sweep, next_sid, accessed>>

-----------------------------------------------------------------------------
(* Bounds of the model *)

MaxSize == 4        \* zones plus address entries over all servers of one run
MaxSizeE == 4       \* blocks plus statements and list entries of one parsed file
MaxChunks == 3      \* statements and include directives over all files on disk
MaxSizeG == 3       \* zones plus address entries of one run with every kind of list
MaxDirs == 2        \* server directories under the path discover_configs is given
MaxSizeT == 6       \* zones plus address entries of the run of two servers that listen
MaxKeys == 2        \* statements the grammar skips in the text of one request thread
MaxSessions == 2    \* session ids uuid.uuid4() gives out in one run
MaxTime == 4        \* ticks of the clock in one run

-----------------------------------------------------------------------------
(* Generic helpers *)

NoneView == "<None>"                 \* Python None for Zone.view / view_name

Last(s) == s[Len(s)]

RECURSIVE FlattenSeq(_)
FlattenSeq(ss) == IF ss = <<>> THEN <<>> ELSE Head(ss) \o FlattenSeq(Tail(ss))

RECURSIVE MapIndex(_, _, _)
\* first index i >= from with s[i].key = k, 0 when there is none
MapIndex(s, k, from) ==
    IF from > Len(s) THEN 0
    ELSE IF s[from].key = k THEN from
    ELSE MapIndex(s, k, from + 1)

\* a Python dict (insertion ordered) as a sequence of [key, value] records
DictHas(d, k) == MapIndex(d, k, 1) # 0
DictGet(d, k) == d[MapIndex(d, k, 1)].value
DictSet(d, k, v) ==
    IF DictHas(d, k)
    THEN [d EXCEPT ![MapIndex(d, k, 1)] = [key |-> k, value |-> v]]
    ELSE Append(d, [key |-> k, value |-> v])

RangeOf(s) == {s[i] : i \in DOMAIN s}

-----------------------------------------------------------------------------
(* models.py *)

NewServerConfig(name) ==
    [name |-> name, zones |-> <<>>, listen_on |-> <<>>, acls |-> <<>>,
     global_forwarders |-> <<>>, global_also_notify |-> <<>>,
     global_allow_transfer |-> <<>>, view_server_ips |-> <<>>]

Relationship(source, target, rel_type, zone_name, view_name) ==
    [source |-> source, target |-> target, rel_type |-> rel_type,
     zone_name |-> zone_name, view_name |-> view_name]

-----------------------------------------------------------------------------
(* extractor.py: extraction of one server's parse results *)

\* the context of the top-level call: view_name=None, no view_* lists
TopCtx == [view_name |-> NoneView, also_notify |-> <<>>,
           allow_transfer |-> <<>>, forwarders |-> <<>>]

\* _extract_zone: <<zone>>, or <<>> for the None it returns on an empty name
ExtractZoneOf(server_name, item, view_name) ==
    IF item.zone_name = "" THEN <<>>
    ELSE << [name |-> item.zone_name, zone_type |-> item.zone_type,
             server_name |-> server_name, view |-> view_name,
             masters |-> item.masters, forwarders |-> item.forwarders,
             allow_transfer |-> item.allow_transfer,
             also_notify |-> item.also_notify] >>

\* a variant of the view-level fallback in which the view's list wins
ViewFallbackMutViewFirst(own, view_list) ==
    IF view_list # <<>> THEN view_list ELSE own

\* the view-level fallback of one list: "if not zone.x and view_x: zone.x = list(view_x)"
ViewFallback(own, view_list) ==
    IF own = <<>> /\ view_list # <<>> THEN view_list ELSE own

ApplyViewFallbacks(zone, ctx) ==
    [zone EXCEPT !.also_notify = ViewFallback(zone.also_notify, ctx.also_notify),
                 !.allow_transfer = ViewFallback(zone.allow_transfer, ctx.allow_transfer),
                 !.forwarders = ViewFallback(zone.forwarders, ctx.forwarders)]

\* the name == "zone" branch of _extract_from_results
ConfigAfterZone(cfg, item, ctx) ==
    LET z == ExtractZoneOf(cfg.name, item, ctx.view_name) IN
    IF z = <<>> THEN cfg
    ELSE [cfg EXCEPT !.zones = Append(cfg.zones, ApplyViewFallbacks(z[1], ctx))]

SpecialListen == {"any", "none", "localhost"}

ListenFilter(ips) == SelectSeq(ips, LAMBDA ip : ip \notin SpecialListen)

\* _extract_options
ConfigAfterOptions(cfg, item) ==
    [cfg EXCEPT
        !.global_forwarders =
            IF item.forwarders # <<>> THEN item.forwarders ELSE @,
        !.global_also_notify =
            IF item.also_notify # <<>> THEN item.also_notify ELSE @,
        !.global_allow_transfer =
            IF item.allow_transfer # <<>> THEN item.allow_transfer ELSE @,
        !.listen_on =
            @ \o ListenFilter(item.listen_on) \o ListenFilter(item.listen_on_v6)]

\* the name == "acl" branch
ConfigAfterAcl(cfg, item) ==
    IF item.acl_name # ""
    THEN [cfg EXCEPT !.acls = DictSet(@, item.acl_name, item.entries)]
    ELSE cfg

\* the name == "view" branch, up to the recursive call
ConfigAfterViewHeader(cfg, item) ==
    IF item.view_servers # <<>> /\ item.view_name # ""
    THEN [cfg EXCEPT !.view_server_ips =
              DictSet(@, item.view_name, item.view_servers)]
    ELSE cfg

\* the arguments of the recursive call for a view
ViewCtxOf(item) ==
    [view_name |-> item.view_name, also_notify |-> item.also_notify,
     allow_transfer |-> item.allow_transfer, forwarders |-> item.forwarders]

-----------------------------------------------------------------------------
(* extractor.py: resolve_relationships *)

MasterTypes == {"master", "primary"}
SlaveTypes == {"slave", "secondary"}
\* a variant that skips no entry
TransferSkipMutNone == {}

TransferSkip == {"any", "none", "localhost"}

ViewOrEmpty(view) == IF view = NoneView THEN "" ELSE view     \* zone.view or ""

\* master_zones[zone.name] = server.name, for the zones of one server
RECURSIVE MasterZonesOfZones(_, _, _)
MasterZonesOfZones(zs, server_name, acc) ==
    IF zs = <<>> THEN acc
    ELSE MasterZonesOfZones(Tail(zs), server_name,
            IF Head(zs).zone_type \in MasterTypes
            THEN DictSet(acc, Head(zs).name, server_name)
            ELSE acc)

RECURSIVE MasterZonesFrom(_, _)
MasterZonesFrom(ss, acc) ==
    IF ss = <<>> THEN acc
    ELSE MasterZonesFrom(Tail(ss),
            MasterZonesOfZones(Head(ss).zones, Head(ss).name, acc))

\* the master_zones index
MasterZones(ss) == MasterZonesFrom(ss, <<>>)

\* a variant of the ip_to_server loop in which the last writer wins
RECURSIVE IpToServerOfIpsMutLast(_, _, _)
IpToServerOfIpsMutLast(ips, server_name, acc) ==
    IF ips = <<>> THEN acc
    ELSE IpToServerOfIpsMutLast(Tail(ips), server_name,
            DictSet(acc, Head(ips), server_name))

\* "if ip not in ip_to_server: ip_to_server[ip] = server.name", for one server
RECURSIVE IpToServerOfIps(_, _, _)
IpToServerOfIps(ips, server_name, acc) ==
    IF ips = <<>> THEN acc
    ELSE IpToServerOfIps(Tail(ips), server_name,
            IF ~DictHas(acc, Head(ips))
            THEN DictSet(acc, Head(ips), server_name)
            ELSE acc)

RECURSIVE IpToServerFrom(_, _)
IpToServerFrom(ss, acc) ==
    IF ss = <<>> THEN acc
    ELSE IpToServerFrom(Tail(ss),
            IpToServerOfIps(Head(ss).listen_on, Head(ss).name, acc))

\* the ip_to_server index
IpToServer(ss) == IpToServerFrom(ss, <<>>)

ServerNames(ss) == {ss[i].name : i \in DOMAIN ss}

\* a variant that does not look into ip_to_server
ResolveIpMutNamesOnly(ip, server_names, ip_to_server) == ip

\* _resolve_ip
ResolveIp(ip, server_names, ip_to_server) ==
    IF ip \in server_names THEN ip
    ELSE IF ip_to_server # <<>> /\ DictHas(ip_to_server, ip)
         THEN DictGet(ip_to_server, ip)
    ELSE ip

\* a variant of phase 2 that does not remember the sources it has seen
RECURSIVE MasterSlaveByIpMutNoSeen(_, _, _, _, _, _)
MasterSlaveByIpMutNoSeen(ips, seen_src, server, zone, server_names, ip_to_server) ==
    IF ips = <<>> THEN <<>>
    ELSE <<Relationship(ResolveIp(Head(ips), server_names, ip_to_server),
                        server.name, "master_slave", zone.name,
                        ViewOrEmpty(zone.view))>>
         \o MasterSlaveByIpMutNoSeen(Tail(ips), seen_src, server, zone,
                                     server_names, ip_to_server)

\* Phase 2 of the master_slave branch: one edge per distinct resolved source
RECURSIVE MasterSlaveByIp(_, _, _, _, _, _)
MasterSlaveByIp(ips, seen_src, server, zone, server_names, ip_to_server) ==
    IF ips = <<>> THEN <<>>
    ELSE LET src == ResolveIp(Head(ips), server_names, ip_to_server) IN
         IF src \notin seen_src
         THEN <<Relationship(src, server.name, "master_slave", zone.name,
                             ViewOrEmpty(zone.view))>>
              \o MasterSlaveByIp(Tail(ips), seen_src \cup {src}, server, zone,
                                 server_names, ip_to_server)
         ELSE MasterSlaveByIp(Tail(ips), seen_src, server, zone,
                              server_names, ip_to_server)

\* a variant of the master_slave branch that resolves the masters list first
MasterSlaveRelsMutIpFirst(server, zone, master_zones, server_names, ip_to_server) ==
    IF zone.zone_type \in SlaveTypes
    THEN IF zone.masters # <<>>
         THEN MasterSlaveByIp(zone.masters, {}, server, zone,
                              server_names, ip_to_server)
         ELSE IF DictHas(master_zones, zone.name)
         THEN <<Relationship(DictGet(master_zones, zone.name), server.name,
                             "master_slave", zone.name, ViewOrEmpty(zone.view))>>
         ELSE <<>>
    ELSE <<>>

\* the master_slave branch of the zone loop
MasterSlaveRels(server, zone, master_zones, server_names, ip_to_server) ==
    IF zone.zone_type \in SlaveTypes
    THEN IF DictHas(master_zones, zone.name)
         THEN <<Relationship(DictGet(master_zones, zone.name), server.name,
                             "master_slave", zone.name, ViewOrEmpty(zone.view))>>
         ELSE MasterSlaveByIp(zone.masters, {}, server, zone,
                              server_names, ip_to_server)
    ELSE <<>>

\* one edge server -> resolved target per entry of a list
RECURSIVE EdgesTo(_, _, _, _, _, _)
EdgesTo(ips, rel_type, server, zone, server_names, ip_to_server) ==
    IF ips = <<>> THEN <<>>
    ELSE <<Relationship(server.name,
                        ResolveIp(Head(ips), server_names, ip_to_server),
                        rel_type, zone.name, ViewOrEmpty(zone.view))>>
         \o EdgesTo(Tail(ips), rel_type, server, zone, server_names, ip_to_server)

\* a variant that takes both lists
OrListMutBoth(a, b) == a \o b

\* "a or b" on lists
OrList(a, b) == IF a # <<>> THEN a ELSE b

AlsoNotifyRels(server, zone, server_names, ip_to_server) ==
    IF zone.zone_type \in MasterTypes
    THEN EdgesTo(OrList(zone.also_notify, server.global_also_notify),
                 "also_notify", server, zone, server_names, ip_to_server)
    ELSE <<>>

AllowTransferRels(server, zone, server_names, ip_to_server) ==
    IF zone.zone_type \in MasterTypes
    THEN EdgesTo(SelectSeq(OrList(zone.allow_transfer, server.global_allow_transfer),
                           LAMBDA ip : ip \notin TransferSkip),
                 "allow_transfer", server, zone, server_names, ip_to_server)
    ELSE <<>>

ForwardRels(server, zone, server_names, ip_to_server) ==
    IF zone.zone_type = "forward"
    THEN EdgesTo(OrList(zone.forwarders, server.global_forwarders),
                 "forward", server, zone, server_names, ip_to_server)
    ELSE <<>>

\* the body of "for zone in server.zones"
ZoneRels(server, zone, master_zones, server_names, ip_to_server) ==
    MasterSlaveRels(server, zone, master_zones, server_names, ip_to_server)
    \o AlsoNotifyRels(server, zone, server_names, ip_to_server)
    \o AllowTransferRels(server, zone, server_names, ip_to_server)
    \o ForwardRels(server, zone, server_names, ip_to_server)

\* the first loop over servers and zones
ZoneLoopRels(ss, master_zones, server_names, ip_to_server) ==
    FlattenSeq([i \in DOMAIN ss |->
        FlattenSeq([j \in DOMAIN ss[i].zones |->
            ZoneRels(ss[i], ss[i].zones[j], master_zones, server_names,
                     ip_to_server)])])

RECURSIVE PeerEdges(_, _, _, _, _)
PeerEdges(ips, server, view_name, server_names, ip_to_server) ==
    IF ips = <<>> THEN <<>>
    ELSE <<Relationship(server.name,
                        ResolveIp(Head(ips), server_names, ip_to_server),
                        "peer", "", view_name)>>
         \o PeerEdges(Tail(ips), server, view_name, server_names, ip_to_server)

\* a variant that gives the edges of a view once per zone of the view
PeerLoopRelsMutPerZone(ss, server_names, ip_to_server) ==
    FlattenSeq([i \in DOMAIN ss |->
        FlattenSeq([j \in DOMAIN ss[i].view_server_ips |->
            FlattenSeq([k \in DOMAIN ss[i].zones |->
                IF ss[i].zones[k].view = ss[i].view_server_ips[j].key
                THEN PeerEdges(ss[i].view_server_ips[j].value, ss[i],
                               ss[i].view_server_ips[j].key, server_names,
                               ip_to_server)
                ELSE <<>>])])])

\* the second loop: view-level server statements -> peer relationships
PeerLoopRels(ss, server_names, ip_to_server) ==
    FlattenSeq([i \in DOMAIN ss |->
        FlattenSeq([j \in DOMAIN ss[i].view_server_ips |->
            PeerEdges(ss[i].view_server_ips[j].value, ss[i],
                      ss[i].view_server_ips[j].key, server_names, ip_to_server)])])

\* a variant of the final filter that keeps everything
DropSelfMutKeep(rels) == rels

\* a variant of the final filter that looks at master_slave relationships only
DropSelfMutMasterSlaveOnly(rels) ==
    SelectSeq(rels, LAMBDA r : r.rel_type # "master_slave" \/ r.source # r.target)

\* the final filter of self-referential relationships

DropSelf(rels) == SelectSeq(rels, LAMBDA r : r.source # r.target)

\* the relationships list before the final filter
UnfilteredRels(ss) ==
    LET master_zones == MasterZones(ss)
        ip_to_server == IpToServer(ss)
        server_names == ServerNames(ss)
    IN ZoneLoopRels(ss, master_zones, server_names, ip_to_server)
       \o PeerLoopRels(ss, server_names, ip_to_server)

\* resolve_relationships
ResolveRelationships(ss) == DropSelf(UnfilteredRels(ss))

-----------------------------------------------------------------------------
(* graph.py: build_graph, the link aggregation *)

LinkKey(l) == <<l.source, l.target, l.rel_type>>

RECURSIVE LinkIndex(_, _, _)
LinkIndex(links, key, from) ==
    IF from > Len(links) THEN 0
    ELSE IF LinkKey(links[from]) = key THEN from
    ELSE LinkIndex(links, key, from + 1)

\* a variant of the iteration that opens a link for every relationship
AddToLinksMutNoGroup(links, rel) ==
    Append(links, [source |-> rel.source, target |-> rel.target,
                   rel_type |-> rel.rel_type, zones |-> <<rel.zone_name>>,
                   count |-> 1])

\* one iteration of "for rel in relationships"
AddToLinks(links, rel) ==
    LET i == LinkIndex(links, LinkKey(rel), 1)
        base == IF i = 0
                THEN Append(links, [source |-> rel.source, target |-> rel.target,
                                    rel_type |-> rel.rel_type, zones |-> <<>>,
                                    count |-> 0])
                ELSE links
        k == IF i = 0 THEN Len(base) ELSE i
    IN [base EXCEPT ![k].zones = Append(@, rel.zone_name),
                    ![k].count = @ + 1]

RECURSIVE AggregateLinks(_, _)
AggregateLinks(rels, links) ==
    IF rels = <<>> THEN links
    ELSE AggregateLinks(Tail(rels), AddToLinks(links, Head(rels)))

\* GraphData() with its default fields
NoGraph == [nodes |-> <<>>, links |-> <<>>, zones |-> <<>>, servers |-> <<>>]

\* a variant that counts the types as they are stored
NormalTypeMutRaw(zt) == zt

\* _zone_type_counts: primary counts as master, secondary as slave
NormalType(zt) ==
    IF zt = "primary" THEN "master"
    ELSE IF zt = "secondary" THEN "slave"
    ELSE zt

RECURSIVE ZoneTypeCountsFrom(_, _)
\* "counts[zt] = counts.get(zt, 0) + 1" over the zones
ZoneTypeCountsFrom(zs, counts) ==
    IF zs = <<>> THEN counts
    ELSE LET zt == NormalType(Head(zs).zone_type) IN
         ZoneTypeCountsFrom(Tail(zs),
             DictSet(counts, zt,
                     (IF DictHas(counts, zt) THEN DictGet(counts, zt) ELSE 0) + 1))

ZoneTypeCounts(server) == ZoneTypeCountsFrom(server.zones, <<>>)

\* _server_role
ServerRole(server) ==
    LET has_master == \E j \in DOMAIN server.zones :
                          server.zones[j].zone_type \in {"master", "primary"}
        has_slave == \E j \in DOMAIN server.zones :
                         server.zones[j].zone_type \in {"slave", "secondary"}
    IN IF has_master /\ has_slave THEN "mixed"
       ELSE IF has_master THEN "master"
       ELSE IF has_slave THEN "slave"
       ELSE "other"

\* _zone_summary
ZoneSummary(zone) ==
    [name |-> zone.name, type |-> zone.zone_type, server |-> zone.server_name,
     view |-> zone.view]

\* the node of a loaded server
ServerNode(server) ==
    [id |-> server.name, type |-> "server", role |-> ServerRole(server),
     zone_count |-> Len(server.zones), zone_counts |-> ZoneTypeCounts(server),
     zones |-> [j \in DOMAIN server.zones |-> ZoneSummary(server.zones[j])],
     listen_on |-> server.listen_on]

\* the node of a server known only by a server statement of a view
ViewServerNode(vs) ==
    [id |-> vs, type |-> "server", role |-> "slave", zone_count |-> 0,
     zone_counts |-> <<>>, zones |-> <<>>, listen_on |-> <<vs>>]

ExternalNode(ext) == [id |-> ext, type |-> "external", zone_count |-> 0, zones |-> <<>>]

\* the first server whose listen_on holds ip gives its name, else ip
GraphResolved(ip, ss) ==
    LET owners == {i \in DOMAIN ss : ip \in RangeOf(ss[i].listen_on)} IN
    IF owners = {} THEN ip
    ELSE ss[CHOOSE i \in owners : \A j \in owners : i <= j].name

\* a variant in which no address is taken as declared by a view
ViewServerIdsMutNone(ss) == {}

\* build_graph: view_server_ids
ViewServerIds(ss) ==
    {GraphResolved(ip, ss) :
        ip \in UNION {UNION {RangeOf(ss[i].view_server_ips[j].value) :
                                 j \in DOMAIN ss[i].view_server_ips} :
                          i \in DOMAIN ss}}
    \ ServerNames(ss)

\* a variant that does not take the view-declared identities out
ExternalIdsMutKeepViews(ss, rels) ==
    ({rels[k].target : k \in DOMAIN rels} \cup {rels[k].source : k \in DOMAIN rels})
        \ ServerNames(ss)

\* build_graph: external_nodes
ExternalIds(ss, rels) ==
    (({rels[k].target : k \in DOMAIN rels} \cup {rels[k].source : k \in DOMAIN rels})
        \ ServerNames(ss)) \ ViewServerIds(ss)

\* the node identities of the model in the order of Python's string
\* comparison
IdOrder ==
    <<"10.0.0.1", "10.0.0.2", "192.0.2.9", "any", "localhost", "none",
      "server1", "server2", "server3">>

\* sorted(ids)
SortedIds(ids) == SelectSeq(IdOrder, LAMBDA x : x \in ids)

\* build_graph: nodes
GraphNodes(ss, rels) ==
    [i \in DOMAIN ss |-> ServerNode(ss[i])]
    \o [i \in DOMAIN SortedIds(ViewServerIds(ss)) |->
            ViewServerNode(SortedIds(ViewServerIds(ss))[i])]
    \o [i \in DOMAIN SortedIds(ExternalIds(ss, rels)) |->
            ExternalNode(SortedIds(ExternalIds(ss, rels))[i])]

\* build_graph: zone_list
ZoneList(ss) ==
    FlattenSeq([i \in DOMAIN ss |->
        [j \in DOMAIN ss[i].zones |-> ZoneSummary(ss[i].zones[j])]])

\* build_graph
GraphOf(ss) ==
    LET rels == ResolveRelationships(ss) IN
    [nodes |-> GraphNodes(ss, rels), links |-> AggregateLinks(rels, <<>>),
     zones |-> ZoneList(ss), servers |-> [i \in DOMAIN ss |-> ss[i].name]]

-----------------------------------------------------------------------------
(* The pipeline as steps.  The item a step consumes is its parameter: the   *)
(* specifications below feed the items either from a parse result held in  *)
(* results (SpecExtract) or as they come (SpecResolve).                     *)

\* extract_all: "for server_name, file_path in configs.items()" reaches the
\* next server; extract_server_config creates its ServerConfig
StartServer ==
    /\ pc = "idle"
    /\ Len(servers) < Len(configs)
    /\ config' = NewServerConfig(configs[Len(servers) + 1].key)
    /\ view_ctx' = TopCtx
    /\ pc' = "top"
    /\ UNCHANGED <<configs, servers, relationships, graph>>
    /\ UNCHANGED <<loadvars, discvars, webvars>>

\* _extract_from_results, name == "zone" (at top level or inside a view)
ExtractZone(item) ==
    /\ pc \in {"top", "view"}
    /\ config' = ConfigAfterZone(config, item, view_ctx)
    /\ UNCHANGED <<configs, servers, view_ctx, relationships, graph, pc>>
    /\ UNCHANGED <<loadvars, discvars, webvars>>

\* _extract_from_results, name == "options"
ExtractOptions(item) ==
    /\ pc = "top"
    /\ config' = ConfigAfterOptions(config, item)
    /\ UNCHANGED <<configs, servers, view_ctx, relationships, graph, pc>>
    /\ UNCHANGED <<loadvars, discvars, webvars>>

\* _extract_from_results, name == "acl"
ExtractAcl(item) ==
    /\ pc = "top"
    /\ config' = ConfigAfterAcl(config, item)
    /\ UNCHANGED <<configs, servers, view_ctx, relationships, graph, pc>>
    /\ UNCHANGED <<loadvars, discvars, webvars>>

\* _extract_from_results, name == "view": the header and the recursive call
EnterView(item) ==
    /\ pc = "top"
    /\ config' = ConfigAfterViewHeader(config, item)
    /\ view_ctx' = ViewCtxOf(item)
    /\ pc' = "view"
    /\ UNCHANGED <<configs, servers, relationships, graph>>
    /\ UNCHANGED <<loadvars, discvars, webvars>>

\* the recursive call for a view returns
LeaveView ==
    /\ pc = "view"
    /\ view_ctx' = TopCtx
    /\ pc' = "top"
    /\ UNCHANGED <<configs, servers, config, relationships, graph>>
    /\ UNCHANGED <<loadvars, discvars, webvars>>

\* extract_all: servers.append(server); after the last server it returns
FinishServer ==
    /\ pc = "top"
    /\ servers' = Append(servers, config)
    /\ config' = <<>>
    /\ pc' = IF Len(servers) + 1 = Len(configs) THEN "extracted" ELSE "idle"
    /\ UNCHANGED <<configs, view_ctx, relationships, graph>>
    /\ UNCHANGED <<loadvars, discvars, webvars>>

\* extract_all on a path with no server
NoServer ==
    /\ pc = "idle"
    /\ Len(configs) = 0
    /\ pc' = "extracted"
    /\ UNCHANGED <<configs, servers, config, view_ctx, relationships, graph>>
    /\ UNCHANGED <<loadvars, discvars, webvars>>

\* build_graph(servers): resolve_relationships, then the link aggregation
BuildGraph ==
    /\ pc = "extracted"
    /\ relationships' = ResolveRelationships(servers)
    /\ graph' = GraphOf(servers)
    /\ pc' = "built"
    /\ UNCHANGED <<configs, servers, config, view_ctx, results, pos, vpos>>
    /\ UNCHANGED <<loadvars, discvars, webvars>>

-----------------------------------------------------------------------------
(* SpecResolve: extract_all over up to three servers, then build_graph.     *)
(* Items come as the walk proceeds.  The run is bounded by its size: the    *)
(* zones plus the address entries of all servers are at most MaxSize.       *)
(* Zones carry a masters list, options a listen-on list.                    *)

ServerIds == <<"server1", "server2", "server3">>

\* the path discover_configs was given, and what it returns for servers kept
\* in subdirectories of that name
ConfigRoot == <<"conf">>
ConfigsOf(names) ==
    [i \in DOMAIN names |->
        [key |-> names[i], value |-> ConfigRoot \o <<names[i], "named.conf">>]]
ZoneNamesR == {"a.com", "b.com"}
AddrsR == {"10.0.0.1", "10.0.0.2", "server1"}

\* server1 is written with the old keywords, server2 with the new ones
ZoneTypesR(server_name) ==
    IF server_name = "server1" THEN {"master", "slave"}
    ELSE IF server_name = "server2" THEN {"primary", "secondary"}
    ELSE {"master", "secondary"}

SeqsUpTo(S, k) == UNION {[1..n -> S] : n \in 0..k}

RECURSIVE SumLen(_)
SumLen(ls) == IF ls = <<>> THEN 0 ELSE Len(Head(ls)) + SumLen(Tail(ls))

ZoneSize(z) == 1 + Len(z.masters) + Len(z.forwarders) + Len(z.allow_transfer)
               + Len(z.also_notify)

RECURSIVE ZonesSize(_)
ZonesSize(zs) == IF zs = <<>> THEN 0 ELSE ZoneSize(Head(zs)) + ZonesSize(Tail(zs))

ConfigSize(c) ==
    ZonesSize(c.zones) + Len(c.listen_on) + Len(c.global_forwarders)
    + Len(c.global_also_notify) + Len(c.global_allow_transfer)
    + SumLen([j \in DOMAIN c.view_server_ips |-> c.view_server_ips[j].value])

RECURSIVE ConfigsSize(_)
ConfigsSize(cs) ==
    IF cs = <<>> THEN 0 ELSE ConfigSize(Head(cs)) + ConfigsSize(Tail(cs))

\* the size of what has been extracted so far
UsedSize == ConfigsSize(servers) + (IF config = <<>> THEN 0 ELSE ConfigSize(config))

ZoneItem(n, t, masters, forwarders, allow_transfer, also_notify) ==
    [kind |-> "zone", zone_name |-> n, zone_type |-> t, masters |-> masters,
     forwarders |-> forwarders, allow_transfer |-> allow_transfer,
     also_notify |-> also_notify]

OptionsItem(listen_on, listen_on_v6, forwarders, allow_transfer, also_notify) ==
    [kind |-> "options", listen_on |-> listen_on, listen_on_v6 |-> listen_on_v6,
     forwarders |-> forwarders, allow_transfer |-> allow_transfer,
     also_notify |-> also_notify]

ViewItem(view_name, view_servers, forwarders, allow_transfer, also_notify, body) ==
    [kind |-> "view", view_name |-> view_name, view_servers |-> view_servers,
     forwarders |-> forwarders, allow_transfer |-> allow_transfer,
     also_notify |-> also_notify, body |-> body]

\* no file is being loaded
InitLoad ==
    /\ fs = <<>>
    /\ stack = <<>>
    /\ seen = {}
    /\ logs = <<>>
    /\ text = <<>>
    /\ unknown_warnings = <<>>

\* discover_configs has returned
\* no request is being served
InitNoWeb ==
    /\ threads = <<>>
    /\ store = <<>>
    /\ registry = <<>>
    /\ dirs = <<>>
    /\ now = 0
    /\ client = <<>>
    /\ sweep = <<>>
    /\ next_sid = 1
    /\ accessed = <<>>

InitDiscovered ==
    /\ InitNoWeb
    /\ config_path = ConfigRoot
    /\ pending = <<>>

InitPipeline ==
    /\ InitLoad
    /\ InitDiscovered
    /\ servers = <<>>
    /\ config = <<>>
    /\ view_ctx = TopCtx
    /\ pos = 1
    /\ vpos = 1
    /\ relationships = <<>>
    /\ graph = NoGraph
    /\ pc = "idle"

InitR ==
    /\ configs \in {ConfigsOf(SubSeq(ServerIds, 1, k)) : k \in 0..Len(ServerIds)}
    /\ results = <<>>
    /\ InitPipeline

FeedZoneR ==
    /\ pc = "top"
    /\ UsedSize < MaxSize
    /\ \E n \in ZoneNamesR, t \in ZoneTypesR(config.name),
          l \in SeqsUpTo(AddrsR, MaxSize - UsedSize - 1) :
            ExtractZone(ZoneItem(n, t, l, <<>>, <<>>, <<>>))
    /\ UNCHANGED <<results, pos, vpos>>

FeedOptionsR ==
    /\ pc = "top"
    /\ \E l \in SeqsUpTo(AddrsR, MaxSize - UsedSize) :
          l # <<>> /\ ExtractOptions(OptionsItem(l, <<>>, <<>>, <<>>, <<>>))
    /\ UNCHANGED <<results, pos, vpos>>

NextR ==
    \/ StartServer /\ UNCHANGED <<results, pos, vpos>>
    \/ NoServer /\ UNCHANGED <<results, pos, vpos>>
    \/ FeedZoneR
    \/ FeedOptionsR
    \/ FinishServer /\ UNCHANGED <<results, pos, vpos>>
    \/ BuildGraph

SpecResolve == InitR /\ [][NextR]_vars

-----------------------------------------------------------------------------
(* Properties of resolve_relationships, checked under SpecResolve *)

SetMin(S) == CHOOSE x \in S : \A y \in S : x <= y

\* the servers (by position) holding a master/primary zone named n
HoldersOf(n) ==
    {i \in DOMAIN servers :
        \E j \in DOMAIN servers[i].zones :
            /\ servers[i].zones[j].name = n
            /\ servers[i].zones[j].zone_type \in MasterTypes}

\* the servers (by position) whose listen_on contains addr
OwnersOf(addr) == {i \in DOMAIN servers : addr \in RangeOf(servers[i].listen_on)}

\* the sources of the master_slave relationships of zone name n into target
MasterSlaveSources(n, target) ==
    {relationships[k].source : k \in
        {k \in DOMAIN relationships :
            /\ relationships[k].rel_type = "master_slave"
            /\ relationships[k].zone_name = n
            /\ relationships[k].target = target}}

\* the master_slave relationships resolve_relationships returns for one zone
MasterSlaveFor(b, z) ==
    DropSelf(MasterSlaveRels(servers[b], z, MasterZones(servers),
                             ServerNames(servers), IpToServer(servers)))

\* addr is no server name and listen_on resolves it to server b
ResolvesToOwn(addr, b) ==
    /\ addr \notin ServerNames(servers)
    /\ OwnersOf(addr) # {}
    /\ SetMin(OwnersOf(addr)) = b

SlaveZonesOf(b) ==
    {j \in DOMAIN servers[b].zones : servers[b].zones[j].zone_type \in SlaveTypes}

\* C1 as stated: for every slave/secondary zone z on server B, if some other
\* loaded server holds a master/primary zone of that name, the master_slave
\* edge produced for z is A -> B with A such a server.
C1_Original ==
    pc = "built" =>
        \A b \in DOMAIN servers : \A j \in SlaveZonesOf(b) :
            LET z == servers[b].zones[j] IN
            HoldersOf(z.name) \ {b} # {} =>
                \E a \in HoldersOf(z.name) \ {b} :
                    MasterSlaveSources(z.name, servers[b].name) = {servers[a].name}

\* C1 (amended): for every slave/secondary zone z on server B, if some other
\* loaded server holds a master/primary zone of that name and B itself holds
\* none, the master_slave edge produced for z is A -> B (source = master,
\* target = slave) with A such a server, whatever z's masters list contains.
C1_NameMatchWins ==
    pc = "built" =>
        \A b \in DOMAIN servers : \A j \in SlaveZonesOf(b) :
            LET z == servers[b].zones[j] IN
            (HoldersOf(z.name) # {} /\ b \notin HoldersOf(z.name)) =>
                \E a \in HoldersOf(z.name) :
                    MasterSlaveSources(z.name, servers[b].name) = {servers[a].name}

\* a slave zone whose masters list holds an address that matches no listen_on
\* and no server name, with a master of that name on another server: the
\* edge comes from that server
C1_Witness ==
    /\ pc = "built"
    /\ \E b \in DOMAIN servers : \E j \in SlaveZonesOf(b) :
        LET z == servers[b].zones[j] IN
        /\ HoldersOf(z.name) # {} /\ b \notin HoldersOf(z.name)
        /\ \E ip \in RangeOf(z.masters) :
              ip \notin ServerNames(servers) /\ OwnersOf(ip) = {}
        /\ \E a \in HoldersOf(z.name) :
              MasterSlaveSources(z.name, servers[b].name) = {servers[a].name}

\* C3 as stated: if the entries of a slave zone's masters list resolve via
\* listen_on to the zone's own server, no master_slave edge is produced for
\* that zone.
C3_Original ==
    pc = "built" =>
        \A b \in DOMAIN servers : \A j \in SlaveZonesOf(b) :
            LET z == servers[b].zones[j] IN
            (/\ z.masters # <<>>
             /\ \A ip \in RangeOf(z.masters) : ResolvesToOwn(ip, b)) =>
                MasterSlaveFor(b, z) = <<>>

\* C3 (amended): if no loaded server holds a master/primary zone of that
\* name and every entry of a slave zone's masters list resolves via
\* listen_on to the zone's own server, no master_slave edge is produced for
\* that zone: none is returned for it, and when it is the only slave zone of
\* its name on the server the relationships hold none of that name into it.
C3_NoSelfEdge ==
    pc = "built" =>
        \A b \in DOMAIN servers : \A j \in SlaveZonesOf(b) :
            LET z == servers[b].zones[j] IN
            (/\ HoldersOf(z.name) = {}
             /\ z.masters # <<>>
             /\ \A ip \in RangeOf(z.masters) : ResolvesToOwn(ip, b)) =>
                /\ MasterSlaveFor(b, z) = <<>>
                /\ (\A j2 \in SlaveZonesOf(b) :
                        servers[b].zones[j2].name = z.name => j2 = j)
                   => MasterSlaveSources(z.name, servers[b].name) = {}

\* a slave zone with a master address that is the server's own listen-on
\* address, no master of that name loaded, and no edge for it
C3_Witness ==
    /\ pc = "built"
    /\ \E b \in DOMAIN servers : \E j \in SlaveZonesOf(b) :
        LET z == servers[b].zones[j] IN
        /\ HoldersOf(z.name) = {}
        /\ z.masters # <<>>
        /\ \A ip \in RangeOf(z.masters) : ResolvesToOwn(ip, b)
        /\ MasterSlaveSources(z.name, servers[b].name) = {}

\* C9: when two or more servers hold a master/primary zone of one name,
\* master_zones maps the name to the first of them in input order, and the
\* master_slave edge of a slave zone of that name on a further server has
\* that first server as its source.
C9_FirstMasterWins ==
    pc = "built" =>
        \A n \in ZoneNamesR :
            Cardinality(HoldersOf(n)) >= 2 =>
                /\ DictGet(MasterZones(servers), n) = servers[SetMin(HoldersOf(n))].name
                /\ \A b \in DOMAIN servers \ HoldersOf(n) :
                    (\E j \in SlaveZonesOf(b) : servers[b].zones[j].name = n) =>
                        MasterSlaveSources(n, servers[b].name)
                            = {servers[SetMin(HoldersOf(n))].name}

UnknownAddr == "192.0.2.9"

\* what the address resolution is said to return for addr
ExpectedResolution(addr) ==
    IF addr \in ServerNames(servers) THEN addr
    ELSE IF OwnersOf(addr) # {} THEN servers[SetMin(OwnersOf(addr))].name
    ELSE addr

\* C10: _resolve_ip(addr) is addr when addr is a server name (even when some
\* listen_on holds it), else the first server in input order whose listen_on
\* contains addr, else addr; so it is a server name or addr.  The sources of
\* the master_slave edges resolved from masters lists are these results.
C10_ResolveIp ==
    pc = "built" =>
        /\ \A addr \in AddrsR \cup {UnknownAddr} :
            LET r == ResolveIp(addr, ServerNames(servers), IpToServer(servers)) IN
            /\ r = ExpectedResolution(addr)
            /\ r \in ServerNames(servers) \cup {addr}
        /\ \A b \in DOMAIN servers : \A j \in SlaveZonesOf(b) :
            LET z == servers[b].zones[j] IN
            HoldersOf(z.name) = {} =>
                \A ip \in RangeOf(z.masters) :
                    ExpectedResolution(ip) # servers[b].name =>
                        ExpectedResolution(ip)
                            \in MasterSlaveSources(z.name, servers[b].name)

\* a server name that another server listens on, and an address two servers
\* listen on
C10_Witness ==
    /\ pc = "built"
    /\ \E addr \in AddrsR : addr \in ServerNames(servers) /\ OwnersOf(addr) # {}
    /\ \E addr \in AddrsR :
          addr \notin ServerNames(servers) /\ Cardinality(OwnersOf(addr)) >= 2

-----------------------------------------------------------------------------
(* SpecGraph: extract_all over one or two servers, then build_graph, with   *)
(* every kind of list: the four zone lists, the options lists and the       *)
(* server statements of views.  Zones stand at top level here.  The run is  *)
(* bounded by MaxSizeG.                                                     *)

ZoneNamesG == {"a.com", "b.com"}
AddrsG == {"10.0.0.1", "server1", "any"}
ListKinds == {"masters", "forwarders", "allow_transfer", "also_notify"}
OptionKinds == {"listen_on", "forwarders", "allow_transfer", "also_notify"}

ZoneTypesG(server_name) ==
    IF server_name = "server1" THEN {"master", "slave", "forward"}
    ELSE {"primary", "secondary"}

Only(kind, k, l) == IF kind = k THEN l ELSE <<>>

InitG ==
    /\ configs \in {ConfigsOf(SubSeq(ServerIds, 1, k)) : k \in 1..2}
    /\ results = <<>>
    /\ InitPipeline

FeedZoneG ==
    /\ pc = "top"
    /\ UsedSize < MaxSizeG
    /\ \E n \in ZoneNamesG, t \in ZoneTypesG(config.name), k \in ListKinds,
          l \in SeqsUpTo(AddrsG, MaxSizeG - UsedSize - 1) :
            ExtractZone(ZoneItem(n, t, Only(k, "masters", l),
                                 Only(k, "forwarders", l),
                                 Only(k, "allow_transfer", l),
                                 Only(k, "also_notify", l)))
    /\ UNCHANGED <<results, pos, vpos>>

FeedOptionsG ==
    /\ pc = "top"
    /\ \E k \in OptionKinds, l \in SeqsUpTo(AddrsG, MaxSizeG - UsedSize) :
          /\ l # <<>>
          /\ ExtractOptions(OptionsItem(Only(k, "listen_on", l), <<>>,
                                        Only(k, "forwarders", l),
                                        Only(k, "allow_transfer", l),
                                        Only(k, "also_notify", l)))
    /\ UNCHANGED <<results, pos, vpos>>

FeedViewG ==
    /\ pc = "top"
    /\ \E l \in SeqsUpTo(AddrsG, MaxSizeG - UsedSize) :
          EnterView(ViewItem("internal", l, <<>>, <<>>, <<>>, <<>>))
    /\ UNCHANGED <<results, pos, vpos>>

\* a master zone inside the view entered last; it carries no list
FeedViewZoneG ==
    /\ pc = "view"
    /\ UsedSize < MaxSizeG
    /\ \E t \in ZoneTypesG(config.name) \cap MasterTypes :
          ExtractZone(ZoneItem("a.com", t, <<>>, <<>>, <<>>, <<>>))
    /\ UNCHANGED <<results, pos, vpos>>

NextG ==
    \/ StartServer /\ UNCHANGED <<results, pos, vpos>>
    \/ FeedZoneG
    \/ FeedOptionsG
    \/ FeedViewG
    \/ FeedViewZoneG
    \/ LeaveView /\ UNCHANGED <<results, pos, vpos>>
    \/ FinishServer /\ UNCHANGED <<results, pos, vpos>>
    \/ BuildGraph

SpecGraph == InitG /\ [][NextG]_vars

-----------------------------------------------------------------------------
(* Properties of resolve_relationships and build_graph, checked under       *)
(* SpecGraph                                                                 *)

RelTypes == {"master_slave", "also_notify", "allow_transfer", "forward", "peer"}

\* C2: no Relationship returned by resolve_relationships has source equal to
\* target, whatever its rel_type.
C2_NoSelfLoop ==
    pc = "built" =>
        \A k \in DOMAIN relationships :
            /\ relationships[k].rel_type \in RelTypes
            /\ relationships[k].source # relationships[k].target

\* the unfiltered list held a self-referential relationship of a type other
\* than master_slave next to one that is kept
C2_Witness ==
    /\ pc = "built"
    /\ relationships # <<>>
    /\ \E k \in DOMAIN UnfilteredRels(servers) :
        LET r == UnfilteredRels(servers)[k] IN
        r.source = r.target /\ r.rel_type # "master_slave"

RelKey(r) == <<r.source, r.target, r.rel_type>>

\* the relationships of one group, in relationship order
GroupOf(key) == SelectSeq(relationships, LAMBDA r : RelKey(r) = key)

RECURSIVE SumCounts(_)
SumCounts(links) ==
    IF links = <<>> THEN 0 ELSE Head(links).count + SumCounts(Tail(links))

\* C4: build_graph produces exactly one link per distinct (source, target,
\* rel_type) among the relationships; a link's count is the size of its group
\* and the length of its zones list, which holds the group's zone names in
\* relationship order; the counts sum to the number of relationships.
C4_LinksAggregate ==
    pc = "built" =>
        LET links == graph.links IN
        /\ \A i, j \in DOMAIN links :
              LinkKey(links[i]) = LinkKey(links[j]) => i = j
        /\ {LinkKey(links[i]) : i \in DOMAIN links}
              = {RelKey(relationships[k]) : k \in DOMAIN relationships}
        /\ \A i \in DOMAIN links :
              LET g == GroupOf(LinkKey(links[i])) IN
              /\ links[i].count = Len(g)
              /\ links[i].count = Len(links[i].zones)
              /\ links[i].zones = [k \in DOMAIN g |-> g[k].zone_name]
        /\ SumCounts(links) = Len(relationships)

\* one link stands for two relationships of different zones
C4_Witness ==
    /\ pc = "built"
    /\ Len(relationships) = 2
    /\ \E i \in DOMAIN graph.links :
        /\ graph.links[i].count = 2
        /\ graph.links[i].zones[1] # graph.links[i].zones[2]

-----------------------------------------------------------------------------
(* grammar.py: what the extractor reads from a parsed block.  A block is    *)
(* the Group pyparsing returns for it: its tokens in order, each a          *)
(* statement Group (a key and its list) or, in a view, a zone Group.        *)

Stmt(key, list) == [kind |-> "stmt", key |-> key, list |-> list, body |-> <<>>]

Block(kind, key, body) == [kind |-> kind, key |-> key, list |-> <<>>, body |-> body]

SetMax(S) == CHOOSE x \in S : \A y \in S : x >= y

\* item.get(key, []) for a results name set without '*': the last match
ItemGet(body, key) ==
    LET idx == {i \in DOMAIN body : body[i].kind = "stmt" /\ body[i].key = key} IN
    IF idx = {} THEN <<>> ELSE body[SetMax(idx)].list

\* item.get(key, []) for a results name set with '*': every match, in order
ItemGetAll(body, key) ==
    FlattenSeq([i \in DOMAIN body |->
        IF body[i].kind = "stmt" /\ body[i].key = key THEN body[i].list ELSE <<>>])

\* the zone block as _extract_zone reads it
ZoneItemOf(b) ==
    LET t == ItemGet(b.body, "zone_type") IN
    ZoneItem(b.key, IF t = <<>> THEN "" ELSE t[1],
             ItemGet(b.body, "masters"), ItemGet(b.body, "forwarders"),
             ItemGet(b.body, "allow_transfer"), ItemGet(b.body, "also_notify"))

\* the options block as _extract_options reads it
OptionsItemOf(b) ==
    OptionsItem(ItemGet(b.body, "listen_on"), ItemGet(b.body, "listen_on_v6"),
                ItemGet(b.body, "forwarders"), ItemGet(b.body, "allow_transfer"),
                ItemGet(b.body, "also_notify"))

\* the view block as the name == "view" branch reads it
ViewItemOf(b) ==
    ViewItem(b.key, ItemGetAll(b.body, "view_servers"),
             ItemGet(b.body, "forwarders"), ItemGet(b.body, "allow_transfer"),
             ItemGet(b.body, "also_notify"), b.body)

-----------------------------------------------------------------------------
(* SpecExtract: one server's file is parsed block by block, statement by    *)
(* statement and entry by entry, then walked by _extract_from_results.      *)
(* The size of the file is at most MaxSizeE: each block counts one, each    *)
(* list statement one, each entry of a list after its first one.            *)

ListenKeysE == {"listen_on", "listen_on_v6"}
AddrsE(key) ==
    IF key \in ListenKeysE THEN {"any", "none", "localhost", "10.0.0.1"}
    ELSE {"10.0.0.1", "10.0.0.2"}
OptionKeysE == {"listen_on", "listen_on_v6", "also_notify", "allow_transfer", "forwarders"}
ListKeysE == {"also_notify", "allow_transfer", "forwarders"}

RECURSIVE BodySize(_)
BodySize(body) ==
    IF body = <<>> THEN 0
    ELSE (IF Head(body).kind = "stmt"
          THEN (IF Head(body).key = "zone_type" THEN 0
                ELSE IF Head(body).list = <<>> THEN 1 ELSE Len(Head(body).list))
          ELSE BodySize(Head(body).body))
         + BodySize(Tail(body))

RECURSIVE BodyBlocks(_)
BodyBlocks(body) ==
    IF body = <<>> THEN 0
    ELSE (IF Head(body).kind = "stmt" THEN 0 ELSE 1 + BodyBlocks(Head(body).body))
         + BodyBlocks(Tail(body))

\* the size of a file: blocks, list statements, entries after the first
FileSize(rs) == BodySize(rs) + BodyBlocks(rs)

NewBlock(kind) ==
    IF kind = "zone" THEN Block("zone", "a.com", <<Stmt("zone_type", <<"master">>)>>)
    ELSE IF kind = "view" THEN Block("view", "internal", <<>>)
    ELSE Block("options", "", <<>>)

Parsing == pc = "idle" /\ servers = <<>>

LastBlock == results[Len(results)]

\* the last token of the last block is a zone block (the block is a view)
InViewZone ==
    /\ results # <<>>
    /\ LastBlock.kind = "view"
    /\ LastBlock.body # <<>>
    /\ Last(LastBlock.body).kind = "zone"

InitE ==
    /\ configs = ConfigsOf(<<"server1">>)
    /\ results = <<>>
    /\ InitPipeline

\* named_conf: ZeroOrMore(top_level_stmt) matches one more block
ParseBlock ==
    /\ Parsing
    /\ FileSize(results) < MaxSizeE
    /\ \E kind \in {"zone", "options", "view"} :
          results' = Append(results, NewBlock(kind))
    /\ UNCHANGED <<configs, servers, config, view_ctx, pos, vpos, relationships,
                   graph, pc>>
    /\ UNCHANGED <<loadvars, discvars, webvars>>

\* view_block: ZeroOrMore(view_body_stmt) matches a zone block
ParseViewZone ==
    /\ Parsing
    /\ results # <<>> /\ LastBlock.kind = "view"
    /\ FileSize(results) < MaxSizeE
    /\ results' = [results EXCEPT ![Len(results)].body = Append(@, NewBlock("zone"))]
    /\ UNCHANGED <<configs, servers, config, view_ctx, pos, vpos, relationships,
                   graph, pc>>
    /\ UNCHANGED <<loadvars, discvars, webvars>>

\* the body of the last top-level block matches one more list statement
ParseStmt ==
    /\ Parsing
    /\ results # <<>>
    /\ FileSize(results) < MaxSizeE
    /\ \E key \in (IF LastBlock.kind = "options" THEN OptionKeysE ELSE ListKeysE) :
          results' = [results EXCEPT ![Len(results)].body = Append(@, Stmt(key, <<>>))]
    /\ UNCHANGED <<configs, servers, config, view_ctx, pos, vpos, relationships,
                   graph, pc>>
    /\ UNCHANGED <<loadvars, discvars, webvars>>

\* the body of a zone block inside a view matches one more list statement
ParseViewZoneStmt ==
    /\ Parsing
    /\ InViewZone
    /\ FileSize(results) < MaxSizeE
    /\ \E key \in ListKeysE :
          results' = [results EXCEPT
              ![Len(results)].body[Len(LastBlock.body)].body = Append(@, Stmt(key, <<>>))]
    /\ UNCHANGED <<configs, servers, config, view_ctx, pos, vpos, relationships,
                   graph, pc>>
    /\ UNCHANGED <<loadvars, discvars, webvars>>

\* the list statement matched last matches one more entry
ParseEntry ==
    /\ Parsing
    /\ results # <<>> /\ LastBlock.body # <<>>
    /\ LET n == Len(LastBlock.body)
           e == LastBlock.body[n]
       IN IF e.kind = "stmt"
          THEN /\ e.key # "zone_type"
               /\ \E addr \in AddrsE(e.key) :
                     results' = [results EXCEPT ![Len(results)].body[n].list =
                                    Append(@, addr)]
          ELSE /\ Last(e.body).key # "zone_type"
               /\ \E addr \in AddrsE(Last(e.body).key) :
                     results' = [results EXCEPT
                         ![Len(results)].body[n].body[Len(e.body)].list =
                             Append(@, addr)]
    /\ FileSize(results') <= MaxSizeE
    /\ UNCHANGED <<configs, servers, config, view_ctx, pos, vpos, relationships,
                   graph, pc>>
    /\ UNCHANGED <<loadvars, discvars, webvars>>

\* "for item in results" at top level reaches a zone, an options or a view block
WalkZone ==
    /\ pc = "top"
    /\ pos <= Len(results) /\ results[pos].kind = "zone"
    /\ ExtractZone(ZoneItemOf(results[pos]))
    /\ pos' = pos + 1
    /\ UNCHANGED <<results, vpos>>

WalkOptions ==
    /\ pc = "top"
    /\ pos <= Len(results) /\ results[pos].kind = "options"
    /\ ExtractOptions(OptionsItemOf(results[pos]))
    /\ pos' = pos + 1
    /\ UNCHANGED <<results, vpos>>

WalkView ==
    /\ pc = "top"
    /\ pos <= Len(results) /\ results[pos].kind = "view"
    /\ EnterView(ViewItemOf(results[pos]))
    /\ vpos' = 1
    /\ UNCHANGED <<results, pos>>

\* "for item in results" in the recursive call reaches a zone block
WalkViewZone ==
    /\ pc = "view"
    /\ vpos <= Len(results[pos].body) /\ results[pos].body[vpos].kind = "zone"
    /\ ExtractZone(ZoneItemOf(results[pos].body[vpos]))
    /\ vpos' = vpos + 1
    /\ UNCHANGED <<results, pos>>

\* ... or a statement Group, which no branch handles
WalkViewStmt ==
    /\ pc = "view"
    /\ vpos <= Len(results[pos].body) /\ results[pos].body[vpos].kind = "stmt"
    /\ vpos' = vpos + 1
    /\ UNCHANGED <<configs, servers, config, view_ctx, results, pos,
                   relationships, graph, pc>>
    /\ UNCHANGED <<loadvars, discvars, webvars>>

WalkViewEnd ==
    /\ pc = "view"
    /\ vpos > Len(results[pos].body)
    /\ LeaveView
    /\ pos' = pos + 1
    /\ vpos' = 1
    /\ UNCHANGED results

WalkEnd ==
    /\ pc = "top"
    /\ pos > Len(results)
    /\ FinishServer
    /\ UNCHANGED <<results, pos, vpos>>

NextE ==
    \/ ParseBlock
    \/ ParseViewZone
    \/ ParseStmt
    \/ ParseViewZoneStmt
    \/ ParseEntry
    \/ StartServer /\ UNCHANGED <<results, pos, vpos>>
    \/ WalkZone
    \/ WalkOptions
    \/ WalkView
    \/ WalkViewZone
    \/ WalkViewStmt
    \/ WalkViewEnd
    \/ WalkEnd

SpecExtract == InitE /\ [][NextE]_vars

-----------------------------------------------------------------------------
(* Properties of the extraction, checked under SpecExtract *)

\* the zone blocks of a file in document order, each with the body of the
\* view around it
ZoneSitesOf(rs) ==
    FlattenSeq([i \in DOMAIN rs |->
        IF rs[i].kind = "zone"
        THEN <<[zone |-> rs[i], in_view |-> FALSE, view_body |-> <<>>]>>
        ELSE IF rs[i].kind = "view"
        THEN LET zs == SelectSeq(rs[i].body, LAMBDA e : e.kind = "zone") IN
             [j \in DOMAIN zs |->
                 [zone |-> zs[j], in_view |-> TRUE, view_body |-> rs[i].body]]
        ELSE <<>>])

\* what the fallback rule gives one list of a zone: its own list (the list
\* its block holds under that name), else the list of the view around it
ExpectedList(site, key) ==
    LET own == ItemGet(site.zone.body, key)
        of_view == ItemGet(site.view_body, key)
    IN IF own # <<>> THEN own
       ELSE IF site.in_view /\ of_view # <<>> THEN of_view
       ELSE <<>>

\* C5: for each of also_notify, allow_transfer and forwarders, an extracted
\* zone whose own list is non-empty keeps its own list; a zone with an empty
\* list in a view whose list is non-empty gets the view's list, same elements
\* in the same order; a zone with an empty list at top level or in a view
\* with an empty list keeps an empty list, whatever the options blocks hold.
C5_ViewFallback ==
    pc = "extracted" =>
        LET zs == servers[1].zones
            sites == ZoneSitesOf(results)
        IN /\ Len(zs) = Len(sites)
           /\ \A k \in DOMAIN zs :
                /\ zs[k].also_notify = ExpectedList(sites[k], "also_notify")
                /\ zs[k].allow_transfer = ExpectedList(sites[k], "allow_transfer")
                /\ zs[k].forwarders = ExpectedList(sites[k], "forwarders")

\* a zone without a list of its own took the two entries of its view's list
C5_Witness ==
    /\ pc = "extracted"
    /\ \E k \in DOMAIN ZoneSitesOf(results) :
        LET site == ZoneSitesOf(results)[k] IN
        /\ site.in_view
        /\ ItemGet(site.zone.body, "also_notify") = <<>>
        /\ Len(ItemGet(site.view_body, "also_notify")) = 2
        /\ servers[1].zones[k].also_notify = ItemGet(site.view_body, "also_notify")

\* the listen-on and listen-on-v6 statements of the options blocks of a file
ListenStmtsOf(rs) ==
    UNION {{rs[i].body[j] : j \in {j \in DOMAIN rs[i].body :
                                      rs[i].body[j].key \in ListenKeysE}} :
           i \in {i \in DOMAIN rs : rs[i].kind = "options"}}

\* C6: after the extraction of the options blocks of a file, listen_on holds
\* none of 'any', 'none', 'localhost' and holds every other entry of the
\* file's listen-on and listen-on-v6 statements.
C6_ListenOnComplete ==
    pc = "extracted" =>
        /\ \A i \in DOMAIN servers[1].listen_on :
              servers[1].listen_on[i] \notin {"any", "none", "localhost"}
        /\ \A st \in ListenStmtsOf(results) :
              \A ip \in RangeOf(st.list) \ {"any", "none", "localhost"} :
                  ip \in RangeOf(servers[1].listen_on)

-----------------------------------------------------------------------------
(* loader.py: include resolution.  A path is the sequence of its            *)
(* components.  The content of a file is the sequence of its chunks: an     *)
(* include directive or a statement of the configuration.                   *)

\* an include directive; anchor is "abs" for an absolute path, else "rel"
Include(anchor, parts) ==
    [kind |-> "include", key |-> anchor, list |-> parts, body |-> <<>>]

\* a statement no grammar rule but the catch-all matches
Unknown(kind, keyword) == [kind |-> kind, key |-> keyword, list |-> <<>>, body |-> <<>>]

IsFile(p) == p \in DOMAIN fs                        \* os.path.isfile
DirName(p) == SubSeq(p, 1, Len(p) - 1)              \* os.path.dirname
BaseName(p) == p[Len(p)]                            \* os.path.basename

\* _find_by_suffix: the suffixes parts[i:] under root_dir, shortest first;
\* <<>> stands for None
RECURSIVE FindBySuffix(_, _, _)
FindBySuffix(parts, root_dir, i) ==
    IF i < 1 THEN <<>>
    ELSE LET candidate == root_dir \o SubSeq(parts, i, Len(parts)) IN
         IF IsFile(candidate) THEN candidate
         ELSE FindBySuffix(parts, root_dir, i - 1)

\* a is a proper prefix of b
IsProperPrefix(a, b) == Len(a) < Len(b) /\ SubSeq(b, 1, Len(a)) = a

\* _find_recursive: os.walk(root_dir) goes top-down, so a directory is
\* visited before the directories below it; among directories neither of
\* which is above the other the file system decides the order.  The result
\* is the set of files the walk can report first ({} stands for None).
FindRecursive(parts, root_dir) ==
    LET matches == {p \in DOMAIN fs :
                       /\ IsProperPrefix(root_dir, p)
                       /\ BaseName(p) = BaseName(parts)}
    IN {p \in matches :
           \A q \in matches : ~IsProperPrefix(DirName(q), DirName(p))}

\* the four strategies of _resolve_includes: the files the directive can
\* resolve to ({} when it is not found)
IncludeTargets(inc, base_dir, root_dir) ==
    LET first == IF inc.key = "abs" THEN inc.list ELSE base_dir \o inc.list
        second == base_dir \o <<BaseName(first)>>
        third == FindBySuffix(inc.list, root_dir, Len(inc.list))
    IN IF IsFile(first) THEN {first}
       ELSE IF IsFile(second) THEN {second}
       ELSE IF third # <<>> THEN {third}
       ELSE FindRecursive(inc.list, root_dir)

\* a variant in which every diagnostic is of level info
LogEntryMutAllInfo(level, message, arg) ==
    [level |-> "info", message |-> message, arg |-> arg]

LogEntry(level, message, arg) == [level |-> level, message |-> message, arg |-> arg]

\* a variant of the membership test that never finds the file
IsCircularMutNever(real, seen_paths) == FALSE

\* "if real in seen"
IsCircular(real, seen_paths) == real \in seen_paths

\* one call of _resolve_includes in progress: the file, the next chunk, the
\* lines gathered
Frame(path) == [path |-> path, idx |-> 1, lines |-> <<>>]

Top == stack[Len(stack)]

TopChunk == fs[Top.path][Top.idx]

AtChunk(kinds) ==
    /\ pc = "resolving"
    /\ Top.idx <= Len(fs[Top.path])
    /\ TopChunk.kind \in kinds

RootDir == <<"srv">>
RootFile == <<"srv", "named.conf">>

\* load_and_parse up to the first call of _resolve_includes, which enters
\* the file (seen is empty)
LoadStart ==
    /\ pc = "setup"
    /\ logs' = <<>>
    /\ seen' = {RootFile}
    /\ stack' = <<Frame(RootFile)>>
    /\ pc' = "resolving"
    /\ UNCHANGED <<discvars, webvars>>
    /\ UNCHANGED <<configs, servers, config, view_ctx, results, pos, vpos,
                   relationships, graph, fs, text, unknown_warnings>>

\* the text up to the next include directive goes to lines
ResolveText ==
    /\ AtChunk({"zone", "options", "view", "unknown_top_stmt", "unknown_top_block"})
    /\ stack' = [stack EXCEPT ![Len(stack)].lines = Append(@, TopChunk),
                              ![Len(stack)].idx = @ + 1]
    /\ UNCHANGED <<discvars, webvars>>
    /\ UNCHANGED <<configs, servers, config, view_ctx, results, pos, vpos,
                   relationships, graph, pc, fs, seen, logs, text,
                   unknown_warnings>>

\* an include directive no strategy finds a file for
IncludeNotFound ==
    /\ AtChunk({"include"})
    /\ IncludeTargets(TopChunk, DirName(Top.path), RootDir) = {}
    /\ logs' = Append(logs, LogEntry("warn", "Include file not found", TopChunk.list))
    /\ stack' = [stack EXCEPT ![Len(stack)].idx = @ + 1]
    /\ UNCHANGED <<discvars, webvars>>
    /\ UNCHANGED <<configs, servers, config, view_ctx, results, pos, vpos,
                   relationships, graph, pc, fs, seen, text, unknown_warnings>>

\* an include directive whose file is in seen: the call returns "" at once
IncludeCircular ==
    /\ AtChunk({"include"})
    /\ \E inc_path \in IncludeTargets(TopChunk, DirName(Top.path), RootDir) :
        /\ IsCircular(inc_path, seen)
        /\ logs' = logs \o <<LogEntry("info", "Resolved include", TopChunk.list),
                             LogEntry("warn", "Circular include skipped", inc_path)>>
    /\ stack' = [stack EXCEPT ![Len(stack)].idx = @ + 1]
    /\ UNCHANGED <<discvars, webvars>>
    /\ UNCHANGED <<configs, servers, config, view_ctx, results, pos, vpos,
                   relationships, graph, pc, fs, seen, text, unknown_warnings>>

\* an include directive whose file is entered by the recursive call
IncludeEnter ==
    /\ AtChunk({"include"})
    /\ \E inc_path \in IncludeTargets(TopChunk, DirName(Top.path), RootDir) :
        /\ ~IsCircular(inc_path, seen)
        /\ logs' = Append(logs, LogEntry("info", "Resolved include", TopChunk.list))
        /\ seen' = seen \cup {inc_path}
        /\ stack' = Append(stack, Frame(inc_path))
    /\ UNCHANGED <<discvars, webvars>>
    /\ UNCHANGED <<configs, servers, config, view_ctx, results, pos, vpos,
                   relationships, graph, pc, fs, text, unknown_warnings>>

\* a call has passed its last directive: it returns its lines, to the
\* including call or to load_and_parse
ResolveReturn ==
    /\ pc = "resolving"
    /\ Top.idx > Len(fs[Top.path])
    /\ IF Len(stack) > 1
       THEN /\ stack' = [SubSeq(stack, 1, Len(stack) - 1) EXCEPT
                            ![Len(stack) - 1].lines = @ \o Top.lines,
                            ![Len(stack) - 1].idx = @ + 1]
            /\ UNCHANGED <<text, pc>>
       ELSE /\ stack' = <<>>
            /\ text' = Top.lines
            /\ pc' = "resolved"
    /\ UNCHANGED <<discvars, webvars>>
    /\ UNCHANGED <<configs, servers, config, view_ctx, results, pos, vpos,
                   relationships, graph, fs, seen, logs, unknown_warnings>>

-----------------------------------------------------------------------------
(* grammar.py: parse_named_conf, as far as load_and_parse shows it *)

RECURSIVE NestedUnknown(_)
\* the keywords unknown_stmt reports inside the body of a block, in order
NestedUnknown(body) ==
    IF body = <<>> THEN <<>>
    ELSE (IF Head(body).kind = "unknown_stmt" THEN <<Head(body).key>>
          ELSE IF Head(body).kind = "stmt" THEN <<>>
          ELSE NestedUnknown(Head(body).body))
         \o NestedUnknown(Tail(body))

\* what _on_unknown appends while one top-level statement is matched: the
\* catch-all for blocks fires before the catch-all for statements matches
UnknownOf(chunk) ==
    IF chunk.kind = "unknown_top_block" THEN <<chunk.key>>
    ELSE IF chunk.kind = "unknown_top_stmt" THEN <<chunk.key, chunk.key>>
    ELSE NestedUnknown(chunk.body)

\* _unknown_warnings after parse_named_conf(text)
WarningsOf(chunks) == FlattenSeq([i \in DOMAIN chunks |-> UnknownOf(chunks[i])])

\* the blocks of the parse results the extractor has a branch for
BlocksOf(chunks) ==
    SelectSeq(chunks, LAMBDA c : c.kind \in {"zone", "options", "view"})

\* a block or brace that is never closed
Unterminated == [kind |-> "unterminated", key |-> "zone", list |-> <<>>, body |-> <<>>]

\* named_conf.parse_string(text, parse_all=True) raises ParseException: no
\* rule of top_level_stmt matches a block that is not closed
ParseFails(chunks) == \E i \in DOMAIN chunks : chunks[i].kind = "unterminated"

\* load_and_parse after _resolve_includes: parse_named_conf(text), then
\* "return results, logs"
ParseAndReturn ==
    /\ pc = "resolved"
    /\ ~ParseFails(text)
    /\ unknown_warnings' = WarningsOf(text)
    /\ results' = BlocksOf(text)
    /\ pc' = "returned"
    /\ UNCHANGED <<discvars, webvars>>
    /\ UNCHANGED <<configs, servers, config, view_ctx, pos, vpos, relationships,
                   graph, fs, stack, seen, logs, text>>

-----------------------------------------------------------------------------
(* SpecLoad: files are written under the server directory, then            *)
(* load_and_parse runs on named.conf.  The files hold at most MaxChunks    *)
(* chunks together.                                                        *)

FilesL == <<RootFile, <<"srv", "a.conf">>, <<"srv", "zones", "b.conf">>>>

IncludesL == {Include("rel", <<"named.conf">>), Include("rel", <<"a.conf">>),
              Include("rel", <<"b.conf">>), Include("rel", <<"gone.conf">>)}

StatementsL ==
    {Unknown("unknown_top_stmt", "recursion"),
     Unknown("unknown_top_block", "logging"),
     Block("zone", "a.com", <<Stmt("zone_type", <<"master">>),
                              Unknown("unknown_stmt", "notify")>>)}

ChunksOnDisk == SumLen([i \in DOMAIN FilesL |-> fs[FilesL[i]]])

InitL ==
    /\ fs = [p \in RangeOf(FilesL) |-> <<>>]
    /\ stack = <<>>
    /\ seen = {}
    /\ logs = <<>>
    /\ text = <<>>
    /\ unknown_warnings = <<>>
    /\ InitDiscovered
    /\ configs = <<>>
    /\ servers = <<>>
    /\ config = <<>>
    /\ view_ctx = TopCtx
    /\ results = <<>>
    /\ pos = 1
    /\ vpos = 1
    /\ relationships = <<>>
    /\ graph = NoGraph
    /\ pc = "setup"

\* the configuration directory gets one more chunk
WriteChunk ==
    /\ pc = "setup"
    /\ ChunksOnDisk < MaxChunks
    /\ \E p \in RangeOf(FilesL), c \in IncludesL \cup StatementsL :
          fs' = [fs EXCEPT ![p] = Append(@, c)]
    /\ UNCHANGED <<discvars, webvars>>
    /\ UNCHANGED <<configs, servers, config, view_ctx, results, pos, vpos,
                   relationships, graph, pc, stack, seen, logs, text,
                   unknown_warnings>>

ResolveStep ==
    \/ ResolveText
    \/ IncludeNotFound
    \/ IncludeCircular
    \/ IncludeEnter
    \/ ResolveReturn

NextL ==
    \/ WriteChunk
    \/ LoadStart
    \/ ResolveText
    \/ IncludeNotFound
    \/ IncludeCircular
    \/ IncludeEnter
    \/ ResolveReturn
    \/ ParseAndReturn

SpecLoad == InitL /\ [][NextL]_vars

\* a call of _resolve_includes that can take a step takes it
SpecLoadFair == SpecLoad /\ WF_vars(ResolveStep)

-----------------------------------------------------------------------------
(* Properties of load_and_parse, checked under SpecLoad and SpecLoadFair *)

IncludesOf(p) == SelectSeq(fs[p], LAMBDA c : c.kind = "include")

\* the files the include directives of p resolve to
IncludedBy(p) ==
    UNION {IncludeTargets(IncludesOf(p)[i], DirName(p), RootDir) :
             i \in DOMAIN IncludesOf(p)}

RECURSIVE ReachIn(_, _)
\* the files reached from the set S in at most n more include steps
ReachIn(S, n) ==
    IF n = 0 THEN S ELSE ReachIn(S \cup UNION {IncludedBy(p) : p \in S}, n - 1)

\* named.conf includes itself, directly or through a chain of other files
RootIncludesItself == RootFile \in ReachIn(IncludedBy(RootFile), Len(FilesL))

CircularEntries == SelectSeq(logs, LAMBDA e : e.message = "Circular include skipped")

\* C7 as stated: for a file that includes itself directly or through a chain
\* of other files, the diagnostics _resolve_includes leaves hold exactly one
\* 'Circular include skipped' entry.
C7_Original ==
    (pc = "resolved" /\ RootIncludesItself) => Len(CircularEntries) = 1

\* C7 (amended): include resolution terminates on every finite include
\* graph: no file is entered twice (no unbounded recursion), every started
\* resolution returns, and for a file that includes itself directly or
\* through a chain of other files the diagnostics hold at least one
\* 'Circular include skipped' entry, exactly one when no file holds more
\* than one include directive.
C7_Terminates ==
    /\ [](Len(stack) <= Len(FilesL))
    /\ (pc = "resolving") ~> (pc = "resolved")
    /\ []((pc = "resolved" /\ RootIncludesItself) =>
            /\ Len(CircularEntries) >= 1
            /\ (\A i \in DOMAIN FilesL : Len(IncludesOf(FilesL[i])) <= 1)
                  => Len(CircularEntries) = 1)

\* named.conf includes itself through another file, the resolution has
\* returned and left one entry
C7_Witness ==
    /\ pc = "resolved"
    /\ RootIncludesItself
    /\ RootFile \notin IncludedBy(RootFile)
    /\ Len(CircularEntries) = 1

RECURSIVE AllUnknown(_)
\* the keywords of the statements of a text only the catch-all rules match,
\* one per statement, top-level and nested
AllUnknown(chunks) ==
    IF chunks = <<>> THEN <<>>
    ELSE (IF Head(chunks).kind \in {"unknown_top_stmt", "unknown_top_block",
                                    "unknown_stmt"}
          THEN <<Head(chunks).key>>
          ELSE IF Head(chunks).kind = "stmt" THEN <<>>
          ELSE AllUnknown(Head(chunks).body))
         \o AllUnknown(Tail(chunks))

\* C8: the diagnostics load_and_parse returns hold one warn entry
\* 'Irrelevant statement skipped: <keyword>' for each unrecognized statement
\* the grammar skipped, top-level or nested.
C8_UnknownInLogs ==
    pc = "returned" =>
        LET skipped == AllUnknown(text)
            reported == SelectSeq(logs, LAMBDA e :
                            e.message = "Irrelevant statement skipped")
        IN /\ Len(reported) = Len(skipped)
           /\ \A i \in DOMAIN reported :
                 reported[i].level = "warn" /\ reported[i].arg = skipped[i]

-----------------------------------------------------------------------------
(* SpecStrategy: named.conf includes zones/b.conf, which holds one include  *)
(* directive; each place the strategies look at holds a file or not.        *)

IncludingFile == <<"srv", "zones", "b.conf">>

\* the places of a file named x.conf
TargetsS ==
    {<<"etc", "bind", "zones", "x.conf">>, <<"srv", "zones", "x.conf">>,
     <<"srv", "x.conf">>, <<"srv", "zones", "sub", "x.conf">>,
     <<"srv", "sub", "x.conf">>, <<"srv", "bind", "zones", "x.conf">>,
     <<"srv", "deep", "x.conf">>, <<"srv", "deep", "er", "x.conf">>}

DirectivesS ==
    {Include("abs", <<"etc", "bind", "zones", "x.conf">>),
     Include("rel", <<"x.conf">>), Include("rel", <<"sub", "x.conf">>),
     Include("rel", <<"b.conf">>)}

\* the content of a file named x.conf: one zone, named after the place
ContentOf(p) == <<Block("zone", p, <<>>)>>

InitS ==
    /\ \E S \in SUBSET TargetsS, d \in DirectivesS :
          fs = [p \in S \cup {RootFile, IncludingFile} |->
                  IF p = RootFile THEN <<Include("rel", <<"zones", "b.conf">>)>>
                  ELSE IF p = IncludingFile THEN <<d>>
                  ELSE ContentOf(p)]
    /\ stack = <<>>
    /\ seen = {}
    /\ logs = <<>>
    /\ text = <<>>
    /\ unknown_warnings = <<>>
    /\ InitDiscovered
    /\ configs = <<>>
    /\ servers = <<>>
    /\ config = <<>>
    /\ view_ctx = TopCtx
    /\ results = <<>>
    /\ pos = 1
    /\ vpos = 1
    /\ relationships = <<>>
    /\ graph = NoGraph
    /\ pc = "setup"

NextS ==
    \/ LoadStart
    \/ ResolveText
    \/ IncludeNotFound
    \/ IncludeCircular
    \/ IncludeEnter
    \/ ResolveReturn
    \/ ParseAndReturn

SpecStrategy == InitS /\ [][NextS]_vars

-----------------------------------------------------------------------------
(* Properties of the path resolution, checked under SpecStrategy *)

\* the directive of zones/b.conf and the directory of the including file
SiteS == fs[IncludingFile][1]
BaseDirS == DirName(IncludingFile)

\* the paths each strategy tries, in the order it tries them
StrategyRelative(inc) ==
    << IF inc.key = "abs" THEN inc.list ELSE BaseDirS \o inc.list >>
StrategyBasenameIfAbsolute(inc) ==
    IF inc.key = "abs" THEN << BaseDirS \o <<BaseName(inc.list)>> >> ELSE <<>>
StrategySuffix(inc) ==
    [k \in 1..Len(inc.list) |->
        RootDir \o SubSeq(inc.list, Len(inc.list) - k + 1, Len(inc.list))]
StrategyWalk(inc) ==
    {p \in DOMAIN fs : IsProperPrefix(RootDir, p) /\ BaseName(p) = BaseName(inc.list)}

\* the files the first succeeding strategy can give ({}: none succeeds)
FirstSucceeding(inc) ==
    LET tried == StrategyRelative(inc) \o StrategyBasenameIfAbsolute(inc)
                 \o StrategySuffix(inc)
        found == {i \in DOMAIN tried : tried[i] \in DOMAIN fs}
    IN IF found # {} THEN {tried[SetMin(found)]} ELSE StrategyWalk(inc)

\* C11: the file inlined at an include site is the one the first succeeding
\* strategy finds, in the order: relative to the including file's directory;
\* for an absolute path, its basename in that directory; the suffixes under
\* root_dir, shortest first; the walk of root_dir.
C11_FirstStrategyWins ==
    (pc = "resolved" /\ BaseName(SiteS.list) = "x.conf") =>
        IF FirstSucceeding(SiteS) = {} THEN text = <<>>
        ELSE \E t \in FirstSucceeding(SiteS) : text = ContentOf(t)

-----------------------------------------------------------------------------
(* Properties of the diagnostics of include sites, checked under SpecLoad *)

\* the include directives of a file that name a file on disk / no file
FoundSitesOf(p) ==
    SelectSeq(IncludesOf(p), LAMBDA c : \E q \in DOMAIN fs : BaseName(q) = BaseName(c.list))
LostSitesOf(p) ==
    SelectSeq(IncludesOf(p), LAMBDA c : \A q \in DOMAIN fs : BaseName(q) # BaseName(c.list))

StatementsOf(p) == SelectSeq(fs[p], LAMBDA c : c.kind # "include")

LogsWith(message) == SelectSeq(logs, LAMBDA e : e.message = message)

\* the files _resolve_includes has entered, in the order of FilesL
EnteredFiles == SelectSeq(FilesL, LAMBDA p : p \in seen)

RECURSIVE IsSubSeq(_, _)
\* a is b with some of its elements left out
IsSubSeq(a, b) ==
    IF a = <<>> THEN TRUE
    ELSE IF b = <<>> THEN FALSE
    ELSE IF Head(a) = Head(b) THEN IsSubSeq(Tail(a), Tail(b))
    ELSE IsSubSeq(a, Tail(b))

\* C12: an include site no strategy finds a file for gives one warn entry
\* 'Include file not found' with the path as written and vanishes, the text
\* around it is kept and the sites after it are processed; a site that is
\* found gives one info entry 'Resolved include' with the path as written.
C12_SiteDiagnostics ==
    pc = "resolved" =>
        /\ Len(LogsWith("Include file not found")) =
              SumLen([i \in DOMAIN EnteredFiles |-> LostSitesOf(EnteredFiles[i])])
        /\ Len(LogsWith("Resolved include")) =
              SumLen([i \in DOMAIN EnteredFiles |-> FoundSitesOf(EnteredFiles[i])])
        /\ \A i \in DOMAIN logs :
              /\ logs[i].message = "Include file not found" =>
                    /\ logs[i].level = "warn"
                    /\ \E c \in RangeOf(LostSitesOf(RootFile))
                               \cup UNION {RangeOf(LostSitesOf(q)) : q \in seen} :
                          logs[i].arg = c.list
              /\ logs[i].message = "Resolved include" =>
                    /\ logs[i].level = "info"
                    /\ \E q \in seen : \E c \in RangeOf(FoundSitesOf(q)) :
                          logs[i].arg = c.list
        /\ IsSubSeq(StatementsOf(RootFile), text)
        /\ FoundSitesOf(RootFile) = <<>> => text = StatementsOf(RootFile)

\* named.conf holds a directive that is not found, then one that is found,
\* then a statement
C12_Witness ==
    /\ pc = "resolved"
    /\ Len(fs[RootFile]) = 3
    /\ fs[RootFile][1] = Include("rel", <<"gone.conf">>)
    /\ fs[RootFile][2] = Include("rel", <<"a.conf">>)
    /\ fs[RootFile][3].kind # "include"
    /\ text = <<fs[RootFile][3]>>
    /\ logs = <<LogEntry("warn", "Include file not found", <<"gone.conf">>),
                LogEntry("info", "Resolved include", <<"a.conf">>)>>

-----------------------------------------------------------------------------
(* Properties of the circular-include test, checked under SpecLoad *)

\* the files whose expansion is in progress
Expanding == {stack[i].path : i \in DOMAIN stack}

\* C13: an include is skipped as circular only if the included file is being
\* expanded (it is the including file or one of its ancestors in the include
\* chain); a file included at a second site that is not its own ancestor is
\* inlined there with no 'Circular include skipped' warning.
C13_CircularOnlyIfExpanding ==
    [][(/\ Len(logs') > Len(logs)
        /\ Last(logs').message = "Circular include skipped")
          => Last(logs').arg \in Expanding]_vars

-----------------------------------------------------------------------------
(* loader.py: discover_configs.  The files are those of fs; a directory is  *)
(* a path some file lies below.                                             *)

IsDir(p) == \E q \in DOMAIN fs : IsProperPrefix(p, q)          \* Path.is_dir
Exists(p) == IsFile(p) \/ IsDir(p)                             \* Path.exists

\* Path.iterdir: the entries of a directory
IterDir(p) ==
    {SubSeq(q, 1, Len(p) + 1) : q \in {f \in DOMAIN fs : IsProperPrefix(p, f)}}

\* the names of the model in lexicographic order
NameOrder ==
    <<"alpha.conf", "keep", "named.conf", "named.conf.local", "notes.txt",
      "server1", "server2", "server3", "zeta.conf">>

\* sorted(p.iterdir()): entries of one directory compare by their names
SortedEntries(p) ==
    LET names == {BaseName(e) : e \in IterDir(p)} IN
    [i \in DOMAIN SelectSeq(NameOrder, LAMBDA n : n \in names) |->
        p \o <<SelectSeq(NameOrder, LAMBDA n : n \in names)[i]>>]

\* Path.suffix and Path.stem of the names of the model
SuffixOf(n) ==
    IF n \in {"alpha.conf", "zeta.conf", "named.conf"} THEN ".conf"
    ELSE IF n = "named.conf.local" THEN ".local"
    ELSE IF n = "notes.txt" THEN ".txt"
    ELSE ""

StemOf(n) ==
    IF n = "alpha.conf" THEN "alpha"
    ELSE IF n = "zeta.conf" THEN "zeta"
    ELSE IF n = "named.conf" THEN "named"
    ELSE IF n = "named.conf.local" THEN "named.conf"
    ELSE IF n = "notes.txt" THEN "notes"
    ELSE n

\* a variant that looks for named.conf.local first
ConfNamesMutLocalFirst == <<"named.conf.local", "named.conf">>

\* for conf_name in ("named.conf", "named.conf.local")
ConfNames == <<"named.conf", "named.conf.local">>

\* the first conf_name that is a file in the entry (<<>> when none is)
ConfFileIn(entry) ==
    LET hits == {i \in DOMAIN ConfNames : IsFile(entry \o <<ConfNames[i]>>)} IN
    IF hits = {} THEN <<>>
    ELSE entry \o <<ConfNames[CHOOSE i \in hits : \A j \in hits : i <= j]>>

\* "if not p.exists(): raise FileNotFoundError"
DiscoverMissing ==
    /\ pc = "discover"
    /\ ~Exists(config_path)
    /\ pc' = "raised"
    /\ UNCHANGED <<configs, servers, config, view_ctx, results, pos, vpos,
                   relationships, graph, config_path, pending>>
    /\ UNCHANGED <<loadvars, webvars>>

\* "if p.is_file()": the single file
DiscoverFile ==
    /\ pc = "discover"
    /\ IsFile(config_path)
    /\ configs' = DictSet(<<>>, StemOf(BaseName(config_path)), config_path)
    /\ pc' = "idle"
    /\ UNCHANGED <<servers, config, view_ctx, results, pos, vpos,
                   relationships, graph, config_path, pending>>
    /\ UNCHANGED <<loadvars, webvars>>

\* the first loop starts: "for entry in sorted(p.iterdir())"
DiscoverDir ==
    /\ pc = "discover"
    /\ IsDir(config_path)
    /\ configs' = <<>>
    /\ pending' = SortedEntries(config_path)
    /\ pc' = "subdirs"
    /\ UNCHANGED <<servers, config, view_ctx, results, pos, vpos,
                   relationships, graph, config_path>>
    /\ UNCHANGED <<loadvars, webvars>>

\* one entry of the subdirectory loop
ScanSubdir ==
    /\ pc = "subdirs"
    /\ pending # <<>>
    /\ LET entry == Head(pending) IN
       configs' = IF IsDir(entry) /\ ConfFileIn(entry) # <<>>
                  THEN DictSet(configs, BaseName(entry), ConfFileIn(entry))
                  ELSE configs
    /\ pending' = Tail(pending)
    /\ UNCHANGED <<servers, config, view_ctx, results, pos, vpos,
                   relationships, graph, pc, config_path>>
    /\ UNCHANGED <<loadvars, webvars>>

\* "if not configs": the flat file loop starts
StartFlat ==
    /\ pc = "subdirs"
    /\ pending = <<>>
    /\ configs = <<>>
    /\ pending' = SortedEntries(config_path)
    /\ pc' = "flat"
    /\ UNCHANGED <<configs, servers, config, view_ctx, results, pos, vpos,
                   relationships, graph, config_path>>
    /\ UNCHANGED <<loadvars, webvars>>

\* one entry of the flat file loop
ScanFlat ==
    /\ pc = "flat"
    /\ pending # <<>>
    /\ LET entry == Head(pending) IN
       configs' = IF IsFile(entry) /\ SuffixOf(BaseName(entry)) = ".conf"
                  THEN DictSet(configs, StemOf(BaseName(entry)), entry)
                  ELSE configs
    /\ pending' = Tail(pending)
    /\ UNCHANGED <<servers, config, view_ctx, results, pos, vpos,
                   relationships, graph, pc, config_path>>
    /\ UNCHANGED <<loadvars, webvars>>

\* "return configs" after the loops
DiscoverReturn ==
    /\ pending = <<>>
    /\ \/ pc = "subdirs" /\ configs # <<>>
       \/ pc = "flat"
    /\ pc' = "idle"
    /\ UNCHANGED <<configs, servers, config, view_ctx, results, pos, vpos,
                   relationships, graph, config_path, pending>>
    /\ UNCHANGED <<loadvars, webvars>>

-----------------------------------------------------------------------------
(* SpecDiscover: discover_configs on a directory tree with up to MaxDirs    *)
(* server directories and some files beside them, on one of its files, or   *)
(* on a path that does not exist.                                           *)

DirNamesD == SubSeq(<<"server1", "server2", "server3">>, 1, MaxDirs)

\* the files a tree can hold
FilesD ==
    UNION {{ConfigRoot \o <<DirNamesD[i], "named.conf">>,
            ConfigRoot \o <<DirNamesD[i], "named.conf.local">>,
            ConfigRoot \o <<DirNamesD[i], "named.conf", "keep">>,
            ConfigRoot \o <<DirNamesD[i], "notes.txt">>} : i \in DOMAIN DirNamesD}
    \cup {ConfigRoot \o <<"alpha.conf">>, ConfigRoot \o <<"zeta.conf">>,
          ConfigRoot \o <<"notes.txt">>}

\* no path is a file and a directory at once
IsTree(S) == \A p \in S, q \in S : ~IsProperPrefix(p, q)

ArgsD ==
    {ConfigRoot, ConfigRoot \o <<"alpha.conf">>,
     ConfigRoot \o <<"server1", "named.conf.local">>, <<"missing">>}

InitD ==
    /\ \E S \in SUBSET FilesD : IsTree(S) /\ fs = [p \in S |-> <<>>]
    /\ config_path \in ArgsD
    /\ pending = <<>>
    /\ configs = <<>>
    /\ stack = <<>>
    /\ seen = {}
    /\ logs = <<>>
    /\ text = <<>>
    /\ unknown_warnings = <<>>
    /\ servers = <<>>
    /\ config = <<>>
    /\ view_ctx = TopCtx
    /\ results = <<>>
    /\ pos = 1
    /\ vpos = 1
    /\ relationships = <<>>
    /\ graph = NoGraph
    /\ pc = "discover"
    /\ InitNoWeb

NextD ==
    \/ DiscoverMissing
    \/ DiscoverFile
    \/ DiscoverDir
    \/ ScanSubdir
    \/ StartFlat
    \/ ScanFlat
    \/ DiscoverReturn

SpecDiscover == InitD /\ [][NextD]_vars

-----------------------------------------------------------------------------
(* Properties of discover_configs, checked under SpecDiscover *)

\* the names of the subdirectories that hold a configuration file, and of
\* the *.conf files directly under the path
SubdirServers ==
    {BaseName(e) : e \in {d \in IterDir(config_path) :
        /\ IsDir(d)
        /\ IsFile(d \o <<"named.conf">>) \/ IsFile(d \o <<"named.conf.local">>)}}

FlatServers ==
    {BaseName(e) : e \in {f \in IterDir(config_path) :
        IsFile(f) /\ SuffixOf(BaseName(f)) = ".conf"}}

InOrder(S) == SelectSeq(NameOrder, LAMBDA n : n \in S)

\* C14: on a directory every subdirectory holding named.conf or
\* named.conf.local is one server named after the directory, named.conf
\* preferred; the *.conf files directly under the path are the servers (named
\* by their stems) only when no subdirectory gave one; a regular file gives
\* the single server {stem: path}; a path that does not exist raises
\* FileNotFoundError; the servers come in lexicographic order of the entries.
C14_Discover ==
    /\ pc = "raised" => ~Exists(config_path)
    /\ pc = "idle" =>
        /\ Exists(config_path)
        /\ IsFile(config_path) =>
              configs = <<[key |-> StemOf(BaseName(config_path)),
                           value |-> config_path]>>
        /\ (IsDir(config_path) /\ SubdirServers # {}) =>
              configs = [i \in DOMAIN InOrder(SubdirServers) |->
                  LET d == config_path \o <<InOrder(SubdirServers)[i]>> IN
                  [key |-> InOrder(SubdirServers)[i],
                   value |-> IF IsFile(d \o <<"named.conf">>)
                             THEN d \o <<"named.conf">>
                             ELSE d \o <<"named.conf.local">>]]
        /\ (IsDir(config_path) /\ SubdirServers = {}) =>
              configs = [i \in DOMAIN InOrder(FlatServers) |->
                  [key |-> StemOf(InOrder(FlatServers)[i]),
                   value |-> config_path \o <<InOrder(FlatServers)[i]>>]]

\* two server directories, one holding both file names, beside a *.conf file
C14_Witness ==
    /\ pc = "idle"
    /\ config_path = ConfigRoot
    /\ IsFile(ConfigRoot \o <<"alpha.conf">>)
    /\ IsFile(ConfigRoot \o <<"server2", "named.conf">>)
    /\ IsFile(ConfigRoot \o <<"server2", "named.conf.local">>)
    /\ IsFile(ConfigRoot \o <<"server1", "named.conf.local">>)
    /\ Len(configs) = 2

-----------------------------------------------------------------------------
(* SpecIsolate: extract_all over three discovered servers, each with a      *)
(* file that parses, a file with a block that is not closed, or a file      *)
(* that cannot be opened; then build_graph.                                 *)

ContentsI ==
    {<<Block("zone", "a.com", <<Stmt("zone_type", <<"master">>)>>)>>,
     <<Block("zone", "a.com", <<Stmt("zone_type", <<"slave">>),
                                Stmt("masters", <<"10.0.0.1">>)>>)>>,
     <<Block("options", "", <<Stmt("listen_on", <<"10.0.0.1">>)>>),
       Block("zone", "b.com", <<Stmt("zone_type", <<"master">>)>>)>>,
     <<Unterminated>>,
     <<Block("zone", "b.com", <<Stmt("zone_type", <<"master">>)>>), Unterminated>>}

\* the file of the server the loop of extract_all has reached
NextFile == configs[Len(servers) + 1].value

\* load_and_parse(file_path) raises: open() fails or the grammar does
LoadFails(path) == IF IsFile(path) THEN ParseFails(fs[path]) ELSE TRUE

InitI ==
    /\ configs = ConfigsOf(ServerIds)
    /\ \E S \in SUBSET {configs[i].value : i \in DOMAIN configs} :
          fs \in [S -> ContentsI]
    /\ stack = <<>>
    /\ seen = {}
    /\ logs = <<>>
    /\ text = <<>>
    /\ unknown_warnings = <<>>
    /\ InitDiscovered
    /\ servers = <<>>
    /\ config = <<>>
    /\ view_ctx = TopCtx
    /\ results = <<>>
    /\ pos = 1
    /\ vpos = 1
    /\ relationships = <<>>
    /\ graph = NoGraph
    /\ pc = "idle"

\* extract_all: load_and_parse(file_path) returns the results and
\* extract_server_config starts on them
LoadServer ==
    /\ pc = "idle"
    /\ Len(servers) < Len(configs)
    /\ ~LoadFails(NextFile)
    /\ StartServer
    /\ results' = BlocksOf(fs[NextFile])
    /\ pos' = 1
    /\ vpos' = 1

\* extract_all: load_and_parse(file_path) raises; no handler is in
\* extract_all, so the exception leaves it and nothing is returned
LoadRaises ==
    /\ pc = "idle"
    /\ Len(servers) < Len(configs)
    /\ LoadFails(NextFile)
    /\ pc' = "raised"
    /\ UNCHANGED <<configs, servers, config, view_ctx, results, pos, vpos,
                   relationships, graph>>
    /\ UNCHANGED <<loadvars, discvars, webvars>>

NextI ==
    \/ LoadServer
    \/ LoadRaises
    \/ WalkZone
    \/ WalkOptions
    \/ WalkEnd
    \/ BuildGraph

SpecIsolate == InitI /\ [][NextI]_vars

-----------------------------------------------------------------------------
(* Properties of the error handling of extract_all, checked under           *)
(* SpecIsolate                                                              *)

\* the discovered servers whose file can be read and parses, in order
ParsingServers ==
    SelectSeq([i \in DOMAIN configs |-> configs[i]],
              LAMBDA c : c.value \in DOMAIN fs
                         /\ \A i \in DOMAIN fs[c.value] :
                               fs[c.value][i].kind # "unterminated")

\* C15: a server whose file cannot be read or does not parse does not stop
\* the others: extract_all returns the servers that parsed and the
\* relationship resolver and the graph builder run on them.
C15_ErrorsIsolated ==
    /\ pc # "raised"
    /\ pc = "built" =>
          [i \in DOMAIN servers |-> servers[i].name] =
              [i \in DOMAIN ParsingServers |-> ParsingServers[i].key]

-----------------------------------------------------------------------------
(* Properties of the also_notify, allow_transfer and forward edges, checked *)
(* under SpecGraph                                                           *)

ListRelTypes == {"also_notify", "allow_transfer", "forward"}

\* the targets of the relationships of one server, type and zone name, in
\* relationship order
TargetsOfRels(b, rel_type, n) ==
    LET sel == SelectSeq(relationships, LAMBDA r :
                   /\ r.source = servers[b].name
                   /\ r.rel_type = rel_type
                   /\ r.zone_name = n)
    IN [i \in DOMAIN sel |-> sel[i].target]

\* the list the rule "the zone's own list if non-empty, else the server's
\* global list" selects for a zone; <<>> for a zone of another type
SelectedList(b, z, rel_type) ==
    IF rel_type = "also_notify" /\ z.zone_type \in {"master", "primary"}
    THEN (IF z.also_notify # <<>> THEN z.also_notify
          ELSE servers[b].global_also_notify)
    ELSE IF rel_type = "allow_transfer" /\ z.zone_type \in {"master", "primary"}
    THEN (IF z.allow_transfer # <<>> THEN z.allow_transfer
          ELSE servers[b].global_allow_transfer)
    ELSE IF rel_type = "forward" /\ z.zone_type = "forward"
    THEN (IF z.forwarders # <<>> THEN z.forwarders
          ELSE servers[b].global_forwarders)
    ELSE <<>>

\* the entries of a selected list that give an edge: all but the literals an
\* allow-transfer list may hold
EdgeEntries(l, rel_type) ==
    IF rel_type = "allow_transfer"
    THEN SelectSeq(l, LAMBDA ip : ip \notin {"any", "none", "localhost"})
    ELSE l

\* the targets one zone gives: one per entry, of which the self-loop filter
\* drops those that are the server itself
ZoneTargets(b, z, rel_type) ==
    LET l == EdgeEntries(SelectedList(b, z, rel_type), rel_type) IN
    SelectSeq([i \in DOMAIN l |-> ExpectedResolution(l[i])],
              LAMBDA t : t # servers[b].name)

\* C16: for each master/primary zone the also_notify edges come from the
\* zone's own also_notify list when it is non-empty and else from the
\* server's global_also_notify list, never from both, one edge per entry from
\* the server to the resolved target; the same rule selects the list of the
\* allow_transfer edges of master/primary zones and of the forward edges of
\* forward zones.
C16_ZoneElseGlobal ==
    pc = "built" =>
        \A b \in DOMAIN servers, rel_type \in ListRelTypes, n \in ZoneNamesG :
            TargetsOfRels(b, rel_type, n) =
                FlattenSeq([j \in DOMAIN servers[b].zones |->
                    IF servers[b].zones[j].name = n
                    THEN ZoneTargets(b, servers[b].zones[j], rel_type)
                    ELSE <<>>])

\* a master zone with its own also_notify list on a server with a different
\* global list, and the edge of the zone's entry
C16_Witness ==
    /\ pc = "built"
    /\ \E b \in DOMAIN servers : \E j \in DOMAIN servers[b].zones :
        LET z == servers[b].zones[j] IN
        /\ z.zone_type \in {"master", "primary"}
        /\ z.also_notify # <<>>
        /\ servers[b].global_also_notify # <<>>
        /\ RangeOf(z.also_notify) \cap RangeOf(servers[b].global_also_notify) = {}
        /\ \E k \in DOMAIN relationships :
              /\ relationships[k].rel_type = "also_notify"
              /\ relationships[k].source = servers[b].name
              /\ relationships[k].target = ExpectedResolution(z.also_notify[1])

\* the allow_transfer relationships of one server and zone name
TransferRelsOf(b, n) ==
    SelectSeq(relationships, LAMBDA r :
        /\ r.source = servers[b].name
        /\ r.rel_type = "allow_transfer"
        /\ r.zone_name = n)

\* the entries of the selected allow-transfer lists of the master/primary
\* zones named n of a server that are no literal and do not resolve to the
\* server itself
TransferEntriesOf(b, n) ==
    FlattenSeq([j \in DOMAIN servers[b].zones |->
        LET z == servers[b].zones[j] IN
        IF z.name = n /\ z.zone_type \in {"master", "primary"}
        THEN SelectSeq(IF z.allow_transfer # <<>> THEN z.allow_transfer
                       ELSE servers[b].global_allow_transfer,
                       LAMBDA ip : /\ ip \notin {"any", "none", "localhost"}
                                   /\ ExpectedResolution(ip) # servers[b].name)
        ELSE <<>>])

\* C17: no allow_transfer relationship has the target 'any', 'none' or
\* 'localhost': such entries of the selected allow-transfer list are skipped,
\* and every other entry gives one allow_transfer edge (which the self-loop
\* filter drops when its target is the server itself).
C17_TransferSkipsLiterals ==
    pc = "built" =>
        /\ \A k \in DOMAIN relationships :
              relationships[k].rel_type = "allow_transfer" =>
                  relationships[k].target \notin {"any", "none", "localhost"}
        /\ \A b \in DOMAIN servers, n \in ZoneNamesG :
              /\ Len(TransferRelsOf(b, n)) = Len(TransferEntriesOf(b, n))
              /\ \A i \in DOMAIN TransferEntriesOf(b, n) :
                    \E k \in DOMAIN TransferRelsOf(b, n) :
                        TransferRelsOf(b, n)[k].target =
                            ExpectedResolution(TransferEntriesOf(b, n)[i])

\* an allow-transfer list holding 'any' beside an address: one edge
C17_Witness ==
    /\ pc = "built"
    /\ \E b \in DOMAIN servers : \E j \in DOMAIN servers[b].zones :
        LET z == servers[b].zones[j] IN
        /\ z.zone_type \in {"master", "primary"}
        /\ "any" \in RangeOf(z.allow_transfer)
        /\ "10.0.0.1" \in RangeOf(z.allow_transfer)
        /\ Len(TransferRelsOf(b, z.name)) = 1

-----------------------------------------------------------------------------
(* Properties of the peer edges, checked under SpecGraph *)

\* the peer relationships of one server, in relationship order
PeerRelsOf(b) ==
    SelectSeq(relationships, LAMBDA r :
        r.rel_type = "peer" /\ r.source = servers[b].name)

\* one edge per address of one (view_name, ip_list) pair, of which the
\* self-loop filter drops those whose target is the server itself
PeerEdgesOfView(b, view_name, ip_list) ==
    SelectSeq([i \in DOMAIN ip_list |->
                  [source |-> servers[b].name,
                   target |-> ExpectedResolution(ip_list[i]),
                   rel_type |-> "peer", zone_name |-> "",
                   view_name |-> view_name]],
              LAMBDA r : r.target # servers[b].name)

\* the zones of a server that stand in the view
ZonesInView(b, view_name) ==
    {j \in DOMAIN servers[b].zones : servers[b].zones[j].view = view_name}

\* C18: for each server and each (view_name, ip_list) of its view_server_ips
\* there is exactly one peer edge per address of ip_list, from the server to
\* the resolved address, with the view's name and zone_name ""; how many
\* zones the view holds does not matter (the self-loop filter then drops the
\* edges whose target is the server itself).
C18_PeerEdges ==
    pc = "built" =>
        \A b \in DOMAIN servers :
            PeerRelsOf(b) =
                FlattenSeq([j \in DOMAIN servers[b].view_server_ips |->
                    PeerEdgesOfView(b, servers[b].view_server_ips[j].key,
                                    servers[b].view_server_ips[j].value)])

\* a view with one server statement and two zones gives one peer edge
C18_Witness ==
    /\ pc = "built"
    /\ \E b \in DOMAIN servers :
        /\ Len(servers[b].view_server_ips) = 1
        /\ Len(servers[b].view_server_ips[1].value) = 1
        /\ Cardinality(ZonesInView(b, servers[b].view_server_ips[1].key)) = 2
        /\ Len(PeerRelsOf(b)) = 1

-----------------------------------------------------------------------------
(* Properties of the nodes of build_graph, checked under SpecGraph *)

\* the number of zones of a server whose stored type is one of types
ZonesOfType(b, types) ==
    Cardinality({j \in DOMAIN servers[b].zones :
                    servers[b].zones[j].zone_type \in types})

\* the count a zone_counts dict holds for a key (0 when it has none)
CountFor(counts, k) ==
    LET at == {i \in DOMAIN counts : counts[i].key = k} IN
    IF at = {} THEN 0 ELSE counts[CHOOSE i \in at : TRUE].value

RECURSIVE SumValues(_)
SumValues(counts) ==
    IF counts = <<>> THEN 0 ELSE Head(counts).value + SumValues(Tail(counts))

\* C19: a server node's role is 'mixed' if the server holds a master/primary
\* and a slave/secondary zone, else 'master' if it holds a master/primary
\* zone, else 'slave' if it holds a slave/secondary zone, else 'other'; its
\* zone_counts count primary as master and secondary as slave and sum to
\* zone_count; the zone summaries keep the zone_type as stored.
C19_RoleAndCounts ==
    pc = "built" =>
        \A b \in DOMAIN servers :
            LET node == graph.nodes[b]
                masters == ZonesOfType(b, {"master", "primary"})
                slaves == ZonesOfType(b, {"slave", "secondary"})
            IN
            /\ node.id = servers[b].name
            /\ node.role = IF masters > 0 /\ slaves > 0 THEN "mixed"
                           ELSE IF masters > 0 THEN "master"
                           ELSE IF slaves > 0 THEN "slave"
                           ELSE "other"
            /\ CountFor(node.zone_counts, "master") = masters
            /\ CountFor(node.zone_counts, "slave") = slaves
            /\ CountFor(node.zone_counts, "forward") = ZonesOfType(b, {"forward"})
            /\ \A i, j \in DOMAIN node.zone_counts :
                  /\ node.zone_counts[i].key \notin {"primary", "secondary"}
                  /\ node.zone_counts[i].key = node.zone_counts[j].key => i = j
            /\ SumValues(node.zone_counts) = node.zone_count
            /\ node.zone_count = Len(servers[b].zones)
            /\ Len(node.zones) = Len(servers[b].zones)
            /\ \A j \in DOMAIN node.zones :
                  /\ node.zones[j].type = servers[b].zones[j].zone_type
                  /\ node.zones[j].name = servers[b].zones[j].name

\* a server with a primary and a secondary zone
C19_Witness ==
    /\ pc = "built"
    /\ \E b \in DOMAIN servers :
        /\ ZonesOfType(b, {"primary"}) > 0
        /\ ZonesOfType(b, {"secondary"}) > 0
        /\ graph.nodes[b].role = "mixed"
        /\ \E j \in DOMAIN graph.nodes[b].zones :
              graph.nodes[b].zones[j].type = "primary"

\* the position of an identity in the order of string comparison
RankOf(id) == CHOOSE i \in DOMAIN IdOrder : IdOrder[i] = id

\* the addresses of server statements of views that are no server name and
\* in no server's listen_on
DeclaredByViews ==
    {ip \in UNION {UNION {RangeOf(servers[b].view_server_ips[j].value) :
                             j \in DOMAIN servers[b].view_server_ips} :
                      b \in DOMAIN servers} :
        ip \notin {servers[b].name : b \in DOMAIN servers} /\ OwnersOf(ip) = {}}

\* the relationship endpoints that are no server name and not declared by a
\* view
ExternalEndpoints ==
    {e \in {relationships[k].source : k \in DOMAIN relationships}
           \cup {relationships[k].target : k \in DOMAIN relationships} :
        e \notin {servers[b].name : b \in DOMAIN servers} /\ e \notin DeclaredByViews}

\* C20: the nodes are one 'server' node per input server in input order,
\* then in sorted order one 'server' node of role 'slave' per address
\* declared by a view that is no server name and in no listen_on, then in
\* sorted order one 'external' node per other relationship endpoint that is
\* no server name; the result depends on the input only.
C20_NodeOrder ==
    pc = "built" =>
        LET nodes == graph.nodes
            n == Len(servers)
            d == Cardinality(DeclaredByViews)
        IN
        /\ Len(nodes) = n + d + Cardinality(ExternalEndpoints)
        /\ \A i \in 1..n :
              nodes[i].id = servers[i].name /\ nodes[i].type = "server"
        /\ {nodes[i].id : i \in (n + 1)..(n + d)} = DeclaredByViews
        /\ \A i \in (n + 1)..(n + d) :
              /\ nodes[i].type = "server"
              /\ nodes[i].role = "slave"
              /\ i < n + d => RankOf(nodes[i].id) < RankOf(nodes[i + 1].id)
        /\ {nodes[i].id : i \in (n + d + 1)..Len(nodes)} = ExternalEndpoints
        /\ \A i \in (n + d + 1)..Len(nodes) :
              /\ nodes[i].type = "external"
              /\ i < Len(nodes) => RankOf(nodes[i].id) < RankOf(nodes[i + 1].id)
        /\ graph = GraphOf(servers)

\* a graph with a node declared by a view and an external node after the
\* server nodes
C20_Witness ==
    /\ pc = "built"
    /\ DeclaredByViews # {}
    /\ ExternalEndpoints # {}
    /\ Len(graph.nodes) = Len(servers) + 2

-----------------------------------------------------------------------------
(* Properties of the two sources of master_slave edges, checked under       *)
(* SpecResolve                                                               *)

\* the identities the entries of a masters list are said to resolve to
ResolvedMasters(z) == {ExpectedResolution(z.masters[i]) : i \in DOMAIN z.masters}

\* C27: the master_slave edges of a slave/secondary zone come from one of
\* two sources.  If a loaded server holds a master/primary zone of that
\* name, one candidate edge from such a server is generated and the masters
\* list is not consulted, so that no edge remains when that server is the
\* zone's own server; otherwise one edge is generated per distinct resolved
\* identity of the masters entries (two entries resolving to one server give
\* one edge, an empty list gives none).  Edges into the own server are
\* dropped; what remains is in the relationships returned.
C27_TwoSources ==
    pc = "built" =>
        \A b \in DOMAIN servers : \A j \in SlaveZonesOf(b) :
            LET z == servers[b].zones[j]
                edges == MasterSlaveFor(b, z)
                srcs == {edges[k].source : k \in DOMAIN edges}
            IN
            /\ \A k \in DOMAIN edges :
                  /\ edges[k].target = servers[b].name
                  /\ edges[k].rel_type = "master_slave"
                  /\ edges[k].zone_name = z.name
                  /\ edges[k].source \in MasterSlaveSources(z.name, servers[b].name)
            /\ Cardinality(srcs) = Len(edges)
            /\ IF HoldersOf(z.name) # {}
               THEN /\ Len(edges) <= 1
                    /\ srcs \subseteq {servers[a].name : a \in HoldersOf(z.name) \ {b}}
                    /\ HoldersOf(z.name) = {b} => edges = <<>>
                    /\ b \notin HoldersOf(z.name) => Len(edges) = 1
               ELSE srcs = ResolvedMasters(z) \ {servers[b].name}

\* a slave zone with no master of its name loaded whose two masters entries
\* resolve to one other server: one edge
C27_Witness ==
    /\ pc = "built"
    /\ \E b \in DOMAIN servers : \E j \in SlaveZonesOf(b) :
        LET z == servers[b].zones[j] IN
        /\ HoldersOf(z.name) = {}
        /\ Len(z.masters) = 2
        /\ Cardinality(ResolvedMasters(z)) = 1
        /\ ResolvedMasters(z) # {servers[b].name}
        /\ Len(MasterSlaveFor(b, z)) = 1

-----------------------------------------------------------------------------
(* Properties of the GraphData as a whole, checked under SpecGraph *)

NodeIds == {graph.nodes[i].id : i \in DOMAIN graph.nodes}

LinkEnds ==
    {graph.links[k].source : k \in DOMAIN graph.links}
    \cup {graph.links[k].target : k \in DOMAIN graph.links}

\* C28: in the GraphData build_graph returns for servers with distinct
\* names, the node ids are pairwise distinct and the source and the target
\* of every link is the id of a node: no link dangles, and no endpoint is
\* both a server node and an external node.
C28_NodesCoverLinks ==
    (pc = "built"
     /\ \A a, b \in DOMAIN servers : servers[a].name = servers[b].name => a = b) =>
        /\ \A i, j \in DOMAIN graph.nodes :
              graph.nodes[i].id = graph.nodes[j].id => i = j
        /\ LinkEnds \subseteq NodeIds
        /\ \A e \in LinkEnds :
              ~ \E i, j \in DOMAIN graph.nodes :
                    /\ graph.nodes[i].id = e /\ graph.nodes[i].type = "server"
                    /\ graph.nodes[j].id = e /\ graph.nodes[j].type = "external"

\* a graph with a link into a node declared by a view and a link into an
\* external node
C28_Witness ==
    /\ pc = "built"
    /\ \E k \in DOMAIN graph.links : \E i \in DOMAIN graph.nodes :
          /\ i > Len(servers)
          /\ graph.nodes[i].type = "server"
          /\ graph.nodes[i].id = graph.links[k].target
    /\ \E k \in DOMAIN graph.links : \E i \in DOMAIN graph.nodes :
          /\ graph.nodes[i].type = "external"
          /\ graph.nodes[i].id = graph.links[k].target

-----------------------------------------------------------------------------
(* SpecListen: extract_all over server1, which holds master zones, and      *)
(* server2, which holds slave zones, then build_graph.  Zones carry an      *)
(* also-notify or a masters list of at most one address, options blocks a   *)
(* listen-on or an also-notify list of one address, views a server          *)
(* statement.  The run is bounded by MaxSizeT.                              *)

AddrsT == {"10.0.0.1", "10.0.0.2"}

InitT ==
    /\ configs = ConfigsOf(SubSeq(ServerIds, 1, 2))
    /\ results = <<>>
    /\ InitPipeline

FeedZoneT ==
    /\ pc = "top"
    /\ UsedSize < MaxSizeT
    /\ \E l \in SeqsUpTo(AddrsT, IF UsedSize + 1 < MaxSizeT THEN 1 ELSE 0) :
          IF config.name = "server1"
          THEN ExtractZone(ZoneItem("a.com", "master", <<>>, <<>>, <<>>, l))
          ELSE ExtractZone(ZoneItem("a.com", "slave", l, <<>>, <<>>, <<>>))
    /\ UNCHANGED <<results, pos, vpos>>

FeedOptionsT ==
    /\ pc = "top"
    /\ UsedSize < MaxSizeT
    /\ \E k \in {"listen_on", "also_notify"}, a \in AddrsT :
          ExtractOptions(OptionsItem(Only(k, "listen_on", <<a>>), <<>>, <<>>, <<>>,
                                     Only(k, "also_notify", <<a>>)))
    /\ UNCHANGED <<results, pos, vpos>>

FeedViewT ==
    /\ pc = "top"
    /\ UsedSize < MaxSizeT
    /\ \E a \in AddrsT :
          EnterView(ViewItem("internal", <<a>>, <<>>, <<>>, <<>>, <<>>))
    /\ UNCHANGED <<results, pos, vpos>>

NextT ==
    \/ StartServer /\ UNCHANGED <<results, pos, vpos>>
    \/ FeedZoneT
    \/ FeedOptionsT
    \/ FeedViewT
    \/ LeaveView /\ UNCHANGED <<results, pos, vpos>>
    \/ FinishServer /\ UNCHANGED <<results, pos, vpos>>
    \/ BuildGraph

SpecListen == InitT /\ [][NextT]_vars

-----------------------------------------------------------------------------
(* Properties of fully resolved configurations, checked under SpecListen *)

\* the addresses some loaded server listens on
ListenAddrs == UNION {RangeOf(servers[b].listen_on) : b \in DOMAIN servers}

\* the addresses in the four lists of the zones
ZoneListAddrs ==
    UNION {UNION {RangeOf(servers[b].zones[j].masters)
                  \cup RangeOf(servers[b].zones[j].also_notify)
                  \cup RangeOf(servers[b].zones[j].allow_transfer)
                  \cup RangeOf(servers[b].zones[j].forwarders) :
                     j \in DOMAIN servers[b].zones} : b \in DOMAIN servers}

\* the addresses in the lists of the options blocks and in the server
\* statements of views
GlobalListAddrs ==
    UNION {RangeOf(servers[b].global_forwarders)
           \cup RangeOf(servers[b].global_also_notify)
           \cup RangeOf(servers[b].global_allow_transfer)
           \cup UNION {RangeOf(servers[b].view_server_ips[j].value) :
                          j \in DOMAIN servers[b].view_server_ips} :
              b \in DOMAIN servers}

RelEnds ==
    {relationships[k].source : k \in DOMAIN relationships}
    \cup {relationships[k].target : k \in DOMAIN relationships}

ExternalNodes == {i \in DOMAIN graph.nodes : graph.nodes[i].type = "external"}

\* server1 listens on 10.0.0.1 and is master of a zone notifying 10.0.0.2;
\* server2 listens on 10.0.0.2 and is slave of the zone with masters 10.0.0.1
TwoServerScenario ==
    /\ Len(servers) = 2
    /\ servers[1].listen_on = <<"10.0.0.1">>
    /\ servers[2].listen_on = <<"10.0.0.2">>
    /\ Len(servers[1].zones) = 1 /\ Len(servers[2].zones) = 1
    /\ servers[1].zones[1].zone_type = "master"
    /\ servers[1].zones[1].also_notify = <<"10.0.0.2">>
    /\ servers[2].zones[1].zone_type = "slave"
    /\ servers[2].zones[1].name = servers[1].zones[1].name
    /\ servers[2].zones[1].masters = <<"10.0.0.1">>
    /\ \A b \in 1..2 :
          /\ servers[b].global_also_notify = <<>>
          /\ servers[b].view_server_ips = <<>>

\* the links are one master_slave and one also_notify link server1->server2,
\* between two nodes
ScenarioLinks ==
    /\ Len(graph.links) = 2
    /\ {[source |-> graph.links[k].source, target |-> graph.links[k].target,
         rel_type |-> graph.links[k].rel_type] : k \in DOMAIN graph.links}
       = {[source |-> "server1", target |-> "server2", rel_type |-> "master_slave"],
          [source |-> "server1", target |-> "server2", rel_type |-> "also_notify"]}
    /\ Len(graph.nodes) = 2

\* C21 as stated: if every address in the zones' masters, also_notify,
\* allow_transfer and forwarders lists is a listen_on address of some loaded
\* server, every relationship endpoint is a server name and the graph has
\* no external node; in the two-server scenario the links are exactly one
\* master_slave server1->server2 and one also_notify server1->server2.
C21_Original ==
    pc = "built" =>
        /\ (ZoneListAddrs \subseteq ListenAddrs) =>
              /\ RelEnds \subseteq {servers[b].name : b \in DOMAIN servers}
              /\ ExternalNodes = {}
        /\ TwoServerScenario => ScenarioLinks


\* C21 (amended): if every address in the zones' masters, also_notify,
\* allow_transfer and forwarders lists, in the forwarders, also_notify and
\* allow_transfer lists of the options blocks and in the server statements
\* of the views is a listen_on address of some loaded server, every
\* relationship endpoint is a server name and the graph has no external
\* node; for the two-server scenario (server1 master of a zone notifying
\* 10.0.0.2, server2 slave of it with masters 10.0.0.1, each listening on
\* its address) the links are exactly one master_slave server1->server2 and
\* one also_notify server1->server2.
C21_AllResolved ==
    pc = "built" =>
        /\ (ZoneListAddrs \cup GlobalListAddrs \subseteq ListenAddrs) =>
              /\ RelEnds \subseteq {servers[b].name : b \in DOMAIN servers}
              /\ ExternalNodes = {}
        /\ TwoServerScenario => ScenarioLinks

\* the two-server scenario has been built
C21_Witness ==
    /\ pc = "built"
    /\ TwoServerScenario
    /\ ZoneListAddrs \cup GlobalListAddrs \subseteq ListenAddrs
    /\ Len(graph.links) = 2

-----------------------------------------------------------------------------
(* grammar.py under two request threads.  Each thread parses a text of its  *)
(* own: parse_named_conf clears the module-level list, _on_unknown appends  *)
(* to it as statements are skipped, and the caller then fetches the         *)
(* warnings with get_unknown_warnings.  A thread switch can happen between  *)
(* any two of these steps.                                                  *)

ThreadIds == {1, 2}

\* the keywords the text of a thread can hold in statements the grammar skips
KeysOf(t) == IF t = 1 THEN {"logging", "controls"} ELSE {"statistics-channels"}

\* parse_named_conf: _unknown_warnings.clear()
ParseClear(t) ==
    /\ threads[t].pc = "start"
    /\ unknown_warnings' = <<>>
    /\ threads' = [threads EXCEPT ![t].pc = "parsing"]
    /\ UNCHANGED <<pipevars, discvars, sessvars, fs, stack, seen, logs, text>>

\* _on_unknown: _unknown_warnings.append(str(tokens[0]))
OnUnknown(t) ==
    /\ threads[t].pc = "parsing"
    /\ threads[t].i <= Len(threads[t].input)
    /\ unknown_warnings' = Append(unknown_warnings, threads[t].input[threads[t].i])
    /\ threads' = [threads EXCEPT ![t].i = @ + 1]
    /\ UNCHANGED <<pipevars, discvars, sessvars, fs, stack, seen, logs, text>>

\* parse_named_conf: parse_string returns
ParseReturn(t) ==
    /\ threads[t].pc = "parsing"
    /\ threads[t].i > Len(threads[t].input)
    /\ threads' = [threads EXCEPT ![t].pc = "parsed"]
    /\ UNCHANGED <<pipevars, discvars, sessvars, loadvars>>

\* get_unknown_warnings: warnings = list(_unknown_warnings)
GetCopy(t) ==
    /\ threads[t].pc = "parsed"
    /\ threads' = [threads EXCEPT ![t].obtained = unknown_warnings,
                                  ![t].pc = "copied"]
    /\ UNCHANGED <<pipevars, discvars, sessvars, loadvars>>

\* get_unknown_warnings: _unknown_warnings.clear(); return warnings
GetClear(t) ==
    /\ threads[t].pc = "copied"
    /\ unknown_warnings' = <<>>
    /\ threads' = [threads EXCEPT ![t].pc = "done"]
    /\ UNCHANGED <<pipevars, discvars, sessvars, fs, stack, seen, logs, text>>

-----------------------------------------------------------------------------
(* SpecThreads: two request threads, each parsing a text with up to MaxKeys *)
(* skipped statements.                                                      *)

InitThreads ==
    /\ threads \in [ThreadIds -> [input : UNION {SeqsUpTo(KeysOf(t), MaxKeys) : t \in ThreadIds},
                                  i : {1}, pc : {"start"}, obtained : {<<>>}]]
    /\ \A t \in ThreadIds : threads[t].input \in SeqsUpTo(KeysOf(t), MaxKeys)
    /\ unknown_warnings = <<>>
    /\ fs = <<>> /\ stack = <<>> /\ seen = {} /\ logs = <<>> /\ text = <<>>
    /\ config_path = ConfigRoot /\ pending = <<>>
    /\ configs = <<>> /\ servers = <<>> /\ config = <<>> /\ view_ctx = TopCtx
    /\ results = <<>> /\ pos = 1 /\ vpos = 1 /\ relationships = <<>>
    /\ graph = NoGraph /\ pc = "idle"
    /\ store = <<>> /\ registry = <<>> /\ dirs = <<>> /\ now = 0
    /\ client = <<>> /\ sweep = <<>> /\ next_sid = 1 /\ accessed = <<>>

NextThreads ==
    \E t \in ThreadIds :
        \/ ParseClear(t)
        \/ OnUnknown(t)
        \/ ParseReturn(t)
        \/ GetCopy(t)
        \/ GetClear(t)

SpecThreads == InitThreads /\ [][NextThreads]_vars

-----------------------------------------------------------------------------
(* Properties of concurrent parses, checked under SpecThreads *)

\* C26: when two parses of different inputs are interleaved, the
\* unknown-statement warnings obtained for a parse are exactly the keywords
\* skipped in that parse, none from the other parse and none lost.
C26_NoInterference ==
    \A t \in ThreadIds :
        threads[t].pc = "done" => threads[t].obtained = threads[t].input

-----------------------------------------------------------------------------
(* api.py, app.py: sessions.  A worker is a process with a SESSION_STORE of *)
(* its own; the registry directory and the upload directories are shared.   *)
(* What _parse_configs_for_session returns for a directory is represented   *)
(* by the names of the servers found in it.  SessionData.last_access is     *)
(* written and never read; it is left out.                                  *)

Workers == {"w1", "w2"}
Clients == {"c1", "c2"}

NoCookie == "<no cookie>"        \* request.cookies.get(...) is None
NoSession == <<>>                \* sid not in store / sd is None
NoFile == <<>>                   \* the registry file does not exist
NoneDir == "<None>"              \* upload_dir is None
NoGraphData == <<>>              \* graph_data is None
SessionTtl == 3                  \* 3600 seconds, in ticks of 1200 seconds

\* the ids uuid.uuid4() gives out, in order, and the names tempfile.mkdtemp
\* can give
SidNames == <<"s1", "s2", "s3", "s4">>
DirNames == {"d1", "d2"}

\* a session and its upload directory from before the workers started
EnvSid == "s0"
EnvDir == "d0"

Sids == {EnvSid} \cup {SidNames[i] : i \in 1..MaxSessions}

\* the fields of the dataclass SessionData
SessionFields == {"servers", "graph_data", "last_access"}

\* SessionData(**kwargs): a keyword that is no field raises TypeError; an
\* attribute that is no field does not exist until it is assigned (attrs
\* holds the attributes the object has beyond servers and graph_data)
NewSessionData(kwargs) ==
    IF ~(DOMAIN kwargs \subseteq SessionFields) THEN [kind |-> "raise"]
    ELSE [kind |-> "ok",
          sd |-> [servers |-> IF "servers" \in DOMAIN kwargs
                              THEN kwargs.servers ELSE <<>>,
                  graph_data |-> IF "graph_data" \in DOMAIN kwargs
                                 THEN kwargs.graph_data ELSE NoGraphData,
                  attrs |-> {"upload_dir", "registry_mtime"} \cap SessionFields,
                  upload_dir |-> IF "upload_dir" \in DOMAIN kwargs
                                 THEN kwargs.upload_dir ELSE NoneDir,
                  registry_mtime |-> 0]]

\* the servers of the startup configuration (CONFIG_PATH)
DefaultServers == <<"server1", "server2">>

\* the path a client posts to /api/parse, and a path that does not exist
PathOf(c) == IF c = "c1" THEN "p1" ELSE "p2"
MissingPath == "missing"

\* the servers discover_configs finds under a path on the server
ServersAt(path) == IF path = "p1" THEN <<"alpha">> ELSE <<"beta">>

\* the servers discover_configs finds in an upload directory
ServersIn(content) ==
    IF content.kind = "nonamed" THEN <<>>
    ELSE IF content.owner = "c1" THEN <<"gamma">>
    ELSE IF content.owner = "c2" THEN <<"delta">>
    ELSE <<"omega">>

GraphDataOf(names) == [servers |-> names]

\* _parse_configs_for_session(path), for a path posted to /api/parse:
\* discover_configs raises FileNotFoundError for a path that does not exist
ParsePath(path) ==
    IF path = MissingPath THEN [kind |-> "raise"]
    ELSE [kind |-> "ok", servers |-> ServersAt(path),
          graph_data |-> GraphDataOf(ServersAt(path))]

\* _parse_configs_for_session(upload_dir): a file that does not parse raises
ParseDir(ds, d) ==
    IF d \notin DOMAIN ds \/ ds[d].kind = "broken" THEN [kind |-> "raise"]
    ELSE [kind |-> "ok", servers |-> ServersIn(ds[d]),
          graph_data |-> GraphDataOf(ServersIn(ds[d]))]

\* shutil.rmtree(d, ignore_errors=True)
RmTree(ds, d) == [x \in DOMAIN ds \ {d} |-> ds[x]]

\* _load_session_from_disk(sid): the session, None or an exception, and the
\* registry afterwards
LoadSessionFromDisk(reg, ds, sid) ==
    IF reg[sid] = NoFile THEN [kind |-> "none", registry |-> reg]
    ELSE IF reg[sid].upload_dir \notin DOMAIN ds
    THEN [kind |-> "none", registry |-> [reg EXCEPT ![sid] = NoFile]]
    ELSE LET parsed == ParseDir(ds, reg[sid].upload_dir) IN
         IF parsed.kind = "raise" THEN [kind |-> "none", registry |-> reg]
         ELSE LET made == NewSessionData([servers |-> parsed.servers,
                                          graph_data |-> parsed.graph_data,
                                          upload_dir |-> reg[sid].upload_dir])
              IN
              IF made.kind = "raise" THEN [kind |-> "raise", registry |-> reg]
              ELSE [kind |-> "session", registry |-> reg, sd |-> made.sd]

\* _persist_session(sid, sd): reading sd.upload_dir raises AttributeError
\* when the attribute was never assigned
PersistSession(reg, st, sid, t) ==
    IF "upload_dir" \notin st[sid].attrs THEN [kind |-> "raise"]
    ELSE IF st[sid].upload_dir = NoneDir
    THEN [kind |-> "ok", registry |-> reg, store |-> st]
    ELSE [kind |-> "ok",
          registry |-> [reg EXCEPT ![sid] = [upload_dir |-> st[sid].upload_dir,
                                             mtime |-> t]],
          store |-> [st EXCEPT ![sid].registry_mtime = t,
                               ![sid].attrs = @ \cup {"registry_mtime"}]]

\* the lookup of a session that is in the store (api.py 110-124, 147-161):
\* stat() of a missing registry file raises OSError, which is passed over
LookupInStore(st, reg, ds, sid, t) ==
    IF reg[sid] = NoFile
    THEN [kind |-> "ok", sid |-> sid, store |-> st, registry |-> reg]
    ELSE IF "registry_mtime" \notin st[sid].attrs THEN [kind |-> "raise"]
    ELSE IF reg[sid].mtime > st[sid].registry_mtime
    THEN LET fresh == LoadSessionFromDisk(reg, ds, sid) IN
         IF fresh.kind = "raise" THEN [kind |-> "raise"]
         ELSE IF fresh.kind = "session"
         THEN [kind |-> "ok", sid |-> sid, registry |-> fresh.registry,
               store |-> [st EXCEPT ![sid] = fresh.sd]]
         ELSE [kind |-> "ok", sid |-> sid, store |-> st,
               registry |-> fresh.registry]
    ELSE [kind |-> "ok", sid |-> sid, store |-> st,
          registry |-> [reg EXCEPT ![sid].mtime = t]]

\* _get_session_data(): the session of the cookie, None when there is none
GetSessionData(st, reg, ds, cookie, t) ==
    IF cookie = NoCookie
    THEN [kind |-> "ok", sid |-> NoCookie, store |-> st, registry |-> reg]
    ELSE IF st[cookie] # NoSession THEN LookupInStore(st, reg, ds, cookie, t)
    ELSE LET sd == LoadSessionFromDisk(reg, ds, cookie) IN
         IF sd.kind = "raise" THEN [kind |-> "raise"]
         ELSE IF sd.kind = "session"
         THEN [kind |-> "ok", sid |-> cookie, registry |-> sd.registry,
               store |-> [st EXCEPT ![cookie] = sd.sd]]
         ELSE [kind |-> "ok", sid |-> NoCookie, store |-> st,
               registry |-> sd.registry]

\* _get_or_create_session(): as above, but a session is made when there is
\* none; uuid is the id uuid.uuid4() gives
GetOrCreateSession(st, reg, ds, cookie, t, uuid) ==
    LET got == GetSessionData(st, reg, ds, cookie, t) IN
    IF got.kind = "raise" \/ got.sid # NoCookie THEN got
    ELSE [kind |-> "ok", sid |-> uuid, registry |-> got.registry,
          store |-> [st EXCEPT ![uuid] = NewSessionData(<<>>).sd]]

\* _effective_data(sd): the session's graph_data if it has servers, else
\* DEFAULT_GRAPH_DATA
EffectiveData(st, sid) ==
    IF sid # NoCookie /\ st[sid].servers # <<>> THEN st[sid].graph_data
    ELSE GraphDataOf(DefaultServers)

-----------------------------------------------------------------------------
(* The request handlers.  A handler runs as one step; the cleanup thread of *)
(* a worker runs statement by statement between them.  The response a       *)
(* client received last is kept with what the request met: the cookie it    *)
(* carried (sent), the servers the worker's store held for it (held), the   *)
(* servers of the upload directory the registry names for it when the store *)
(* lacked it (disk), and the sessions the request added to the store (made). *)

NoResponse ==
    [route |-> "none", worker |-> "", status |-> 0, body |-> <<>>,
     sent |-> NoCookie, held |-> <<>>, disk |-> <<>>, files |-> "", made |-> {}]

SessionsIn(st) == {s \in DOMAIN st : st[s] # NoSession}

HeldBy(st, cookie) ==
    IF cookie # NoCookie /\ st[cookie] # NoSession THEN st[cookie].servers ELSE <<>>

OnDiskFor(st, reg, ds, cookie) ==
    IF cookie # NoCookie /\ st[cookie] = NoSession /\ reg[cookie] # NoFile
       /\ ParseDir(ds, reg[cookie].upload_dir).kind = "ok"
    THEN ParseDir(ds, reg[cookie].upload_dir).servers
    ELSE <<>>

\* the response of worker w to the request of client c
Respond(c, w, route, status, body, files, after) ==
    [route |-> route, worker |-> w, status |-> status, body |-> body,
     sent |-> client[c].cookie,
     held |-> HeldBy(store[w], client[c].cookie),
     disk |-> OnDiskFor(store[w], registry, dirs, client[c].cookie),
     files |-> files, made |-> SessionsIn(after) \ SessionsIn(store[w])]

\* the request carried the cookie of client c
Accessed(c) ==
    accessed' = IF client[c].cookie = NoCookie THEN accessed
                ELSE [accessed EXCEPT ![client[c].cookie] = {now}]

UntouchedByRequests ==
    UNCHANGED <<pipevars, loadvars, discvars, threads, now, sweep>>

\* GET /api/graph
GetGraph(c, w) ==
    LET got == GetSessionData(store[w], registry, dirs, client[c].cookie, now) IN
    /\ IF got.kind = "raise"
       THEN /\ client' = [client EXCEPT ![c].resp =
                            Respond(c, w, "graph", 500, <<>>, "", store[w])]
            /\ UNCHANGED <<store, registry>>
       ELSE /\ client' = [client EXCEPT ![c].resp =
                            Respond(c, w, "graph", 200,
                                    EffectiveData(got.store, got.sid).servers, "", got.store)]
            /\ store' = [store EXCEPT ![w] = got.store]
            /\ registry' = got.registry
    /\ Accessed(c)
    /\ UNCHANGED <<dirs, next_sid>>
    /\ UntouchedByRequests

\* POST /api/parse with a path: every exception is answered with 500
ParseConfigs(c, w, path) ==
    /\ next_sid <= MaxSessions
    /\ LET got == GetOrCreateSession(store[w], registry, dirs, client[c].cookie,
                                     now, SidNames[next_sid])
           parsed == ParsePath(path)
       IN
       IF got.kind = "raise"
       THEN /\ client' = [client EXCEPT ![c].resp =
                            Respond(c, w, "parse", 500, <<>>, "", store[w])]
            /\ UNCHANGED <<store, registry, next_sid>>
       ELSE /\ registry' = got.registry
            /\ next_sid' = IF got.sid = client[c].cookie THEN next_sid
                           ELSE next_sid + 1
            /\ IF parsed.kind = "raise"
               THEN /\ client' = [client EXCEPT ![c].resp =
                                    Respond(c, w, "parse", 500, <<>>, "", got.store)]
                    /\ store' = [store EXCEPT ![w] = got.store]
               ELSE /\ client' = [client EXCEPT
                            ![c].resp = Respond(c, w, "parse", 200,
                                                parsed.servers, "", got.store),
                            ![c].cookie = got.sid,
                            ![c].since_reset = FALSE]
                    /\ store' = [store EXCEPT ![w] =
                            [got.store EXCEPT ![got.sid].servers = parsed.servers,
                                              ![got.sid].graph_data = parsed.graph_data]]
    /\ Accessed(c)
    /\ UNCHANGED dirs
    /\ UntouchedByRequests

\* the session of client c holds servers in the store of worker w
HadData(c, w) == HeldBy(store[w], client[c].cookie) # <<>>

\* POST /api/reset: reading sd.upload_dir raises AttributeError when the
\* session was never given the attribute; since_reset keeps that a session
\* holding data posted the request, until the client loads data again
Reset(c, w) ==
    LET got == GetSessionData(store[w], registry, dirs, client[c].cookie, now) IN
    /\ IF got.kind = "raise"
       THEN /\ client' = [client EXCEPT
                            ![c].resp = Respond(c, w, "reset", 500, <<>>, "", store[w]),
                            ![c].since_reset = HadData(c, w)]
            /\ UNCHANGED <<store, registry, dirs>>
       ELSE IF got.sid = NoCookie
       THEN /\ client' = [client EXCEPT
                            ![c].resp = Respond(c, w, "reset", 200, <<>>, "", got.store),
                            ![c].since_reset = HadData(c, w)]
            /\ store' = [store EXCEPT ![w] = got.store]
            /\ registry' = got.registry
            /\ UNCHANGED dirs
       ELSE IF "upload_dir" \notin got.store[got.sid].attrs
       THEN /\ client' = [client EXCEPT
                            ![c].resp = Respond(c, w, "reset", 500, <<>>, "", got.store),
                            ![c].since_reset = HadData(c, w)]
            /\ store' = [store EXCEPT ![w] = got.store]
            /\ registry' = got.registry
            /\ UNCHANGED dirs
       ELSE /\ client' = [client EXCEPT
                    ![c].resp = Respond(c, w, "reset", 200, <<>>, "", got.store),
                    ![c].since_reset = HadData(c, w)]
            /\ dirs' = RmTree(dirs, got.store[got.sid].upload_dir)
            /\ store' = [store EXCEPT ![w] =
                    [got.store EXCEPT ![got.sid].upload_dir = NoneDir,
                                      ![got.sid].servers = <<>>,
                                      ![got.sid].graph_data = NoGraphData]]
            /\ registry' = [got.registry EXCEPT ![got.sid] = NoFile]
    /\ Accessed(c)
    /\ UNCHANGED next_sid
    /\ UntouchedByRequests

\* POST /api/upload without files
UploadNothing(c, w) ==
    /\ client' = [client EXCEPT ![c].resp =
                    Respond(c, w, "upload", 400, <<>>, "none", store[w])]
    /\ UNCHANGED <<store, registry, dirs, next_sid, accessed>>
    /\ UntouchedByRequests

\* POST /api/upload with files: what is uploaded is a valid configuration
\* ("valid"), a folder without a named.conf ("nonamed") or a named.conf that
\* does not parse ("broken").  Exceptions before the try block are answered
\* with 500 by the framework.
UploadConfigs(c, w, files) ==
    /\ next_sid <= MaxSessions
    /\ LET got == GetOrCreateSession(store[w], registry, dirs, client[c].cookie,
                                     now, SidNames[next_sid])
       IN
       IF got.kind = "raise"
       THEN /\ client' = [client EXCEPT ![c].resp =
                            Respond(c, w, "upload", 500, <<>>, files, store[w])]
            /\ UNCHANGED <<store, registry, dirs, next_sid>>
       ELSE
       /\ next_sid' = IF got.sid = client[c].cookie THEN next_sid ELSE next_sid + 1
       /\ IF "upload_dir" \notin got.store[got.sid].attrs
          THEN /\ client' = [client EXCEPT ![c].resp =
                               Respond(c, w, "upload", 500, <<>>, files, got.store)]
               /\ store' = [store EXCEPT ![w] = got.store]
               /\ registry' = got.registry
               /\ UNCHANGED dirs
          ELSE \E d \in DirNames \ DOMAIN dirs :
               LET sd == got.store[got.sid]
                   old_upload_dir == IF sd.upload_dir \in DOMAIN dirs
                                     THEN sd.upload_dir ELSE NoneDir
                   saved == [x \in DOMAIN dirs \cup {d} |->
                                IF x = d THEN [kind |-> files, owner |-> c]
                                ELSE dirs[x]]
                   parsed == ParseDir(saved, d)
                   swapped == [got.store EXCEPT
                                  ![got.sid].servers = parsed.servers,
                                  ![got.sid].graph_data = parsed.graph_data,
                                  ![got.sid].upload_dir = d]
                   persisted == PersistSession(got.registry, swapped, got.sid, now)
               IN
               IF parsed.kind = "raise"
               THEN /\ client' = [client EXCEPT ![c].resp =
                                    Respond(c, w, "upload", 500, <<>>, files, got.store)]
                    /\ store' = [store EXCEPT ![w] = got.store]
                    /\ registry' = got.registry
                    /\ dirs' = saved
               ELSE /\ store' = [store EXCEPT ![w] = persisted.store]
                    /\ registry' = persisted.registry
                    /\ dirs' = RmTree(saved, old_upload_dir)
                    /\ IF parsed.servers = <<>>
                       THEN client' = [client EXCEPT ![c].resp =
                                    Respond(c, w, "upload", 400, <<>>, files, persisted.store)]
                       ELSE client' = [client EXCEPT
                                ![c].resp = Respond(c, w, "upload", 200,
                                                    parsed.servers, files, persisted.store),
                                ![c].cookie = got.sid,
                                ![c].since_reset = FALSE]
    /\ Accessed(c)
    /\ UntouchedByRequests

-----------------------------------------------------------------------------
(* app.py: _session_cleanup_loop, one thread per worker *)

Asleep ==
    [pc |-> "sleep", cutoff |-> 0, todo |-> {}, sid |-> NoCookie,
     upload_dir |-> NoneDir, last |-> <<>>]

UntouchedBySweep ==
    UNCHANGED <<pipevars, loadvars, discvars, threads, now, client, next_sid,
                accessed>>

\* time.sleep(600) returns: cutoff = time.time() - 3600; the registry files
\* are listed
SweepWake(w) ==
    /\ sweep[w].pc = "sleep"
    /\ sweep' = [sweep EXCEPT ![w].pc = "scan",
                              ![w].cutoff = now - SessionTtl,
                              ![w].todo = {s \in Sids : registry[s] # NoFile}]
    /\ UNCHANGED <<store, registry, dirs>>
    /\ UntouchedBySweep

\* the loop takes the next file: if it is older than cutoff its upload_dir
\* is read; a file that is gone raises, and the exception is passed over
SweepStat(w) ==
    /\ sweep[w].pc = "scan"
    /\ \E s \in sweep[w].todo :
          IF registry[s] # NoFile /\ registry[s].mtime < sweep[w].cutoff
          THEN sweep' = [sweep EXCEPT ![w].pc = "pop",
                                      ![w].todo = @ \ {s},
                                      ![w].sid = s,
                                      ![w].upload_dir = registry[s].upload_dir]
          ELSE sweep' = [sweep EXCEPT ![w].todo = @ \ {s}]
    /\ UNCHANGED <<store, registry, dirs>>
    /\ UntouchedBySweep

\* with lock: store.pop(sid, None)
SweepPop(w) ==
    /\ sweep[w].pc = "pop"
    /\ store' = [store EXCEPT ![w][sweep[w].sid] = NoSession]
    /\ sweep' = [sweep EXCEPT ![w].pc = "rmtree"]
    /\ UNCHANGED <<registry, dirs>>
    /\ UntouchedBySweep

\* shutil.rmtree(upload_dir, ignore_errors=True); last keeps when the
\* directory went and when the session was last asked for
SweepRmtree(w) ==
    /\ sweep[w].pc = "rmtree"
    /\ dirs' = RmTree(dirs, sweep[w].upload_dir)
    /\ sweep' = [sweep EXCEPT ![w].pc = "unlink",
                              ![w].last = [sid |-> sweep[w].sid, at |-> now,
                                           asked |-> accessed[sweep[w].sid],
                                           mtime |-> IF registry[sweep[w].sid] = NoFile
                                                     THEN {}
                                                     ELSE {registry[sweep[w].sid].mtime}]]
    /\ UNCHANGED <<store, registry>>
    /\ UntouchedBySweep

\* json_file.unlink(missing_ok=True)
SweepUnlink(w) ==
    /\ sweep[w].pc = "unlink"
    /\ registry' = [registry EXCEPT ![sweep[w].sid] = NoFile]
    /\ sweep' = [sweep EXCEPT ![w].pc = "scan"]
    /\ UNCHANGED <<store, dirs>>
    /\ UntouchedBySweep

\* the loop over the files ends: time.sleep(600)
SweepSleep(w) ==
    /\ sweep[w].pc = "scan"
    /\ sweep[w].todo = {}
    /\ sweep' = [sweep EXCEPT ![w].pc = "sleep"]
    /\ UNCHANGED <<store, registry, dirs>>
    /\ UntouchedBySweep

\* time passes
Tick ==
    /\ now < MaxTime
    /\ now' = now + 1
    /\ UNCHANGED <<pipevars, loadvars, discvars, threads, store, registry, dirs,
                   client, sweep, next_sid, accessed>>

-----------------------------------------------------------------------------
(* SpecSession: two workers started on the same configuration, two clients. *)
(* The registry directory is empty or holds the file of a session persisted *)
(* before the workers started, with or without its upload directory; the    *)
(* second client may carry that session's cookie.                           *)

InitW ==
    /\ store = [w \in Workers |-> [s \in Sids |-> NoSession]]
    /\ \E env \in {"none", "session", "nodir"} :
          /\ registry = [s \in Sids |->
                            IF s = EnvSid /\ env # "none"
                            THEN [upload_dir |-> EnvDir, mtime |-> 0] ELSE NoFile]
          /\ dirs = [d \in (IF env = "session" THEN {EnvDir} ELSE {}) |->
                        [kind |-> "valid", owner |-> "env"]]
    /\ now = 0
    /\ \E k \in {NoCookie, EnvSid} :
          client = [c \in Clients |->
                       [cookie |-> IF c = "c2" THEN k ELSE NoCookie,
                        resp |-> NoResponse, since_reset |-> FALSE]]
    /\ sweep = [w \in Workers |-> Asleep]
    /\ next_sid = 1
    /\ accessed = [s \in Sids |-> {}]
    /\ threads = <<>>
    /\ unknown_warnings = <<>>
    /\ fs = <<>> /\ stack = <<>> /\ seen = {} /\ logs = <<>> /\ text = <<>>
    /\ config_path = ConfigRoot /\ pending = <<>>
    /\ configs = <<>> /\ servers = <<>> /\ config = <<>> /\ view_ctx = TopCtx
    /\ results = <<>> /\ pos = 1 /\ vpos = 1 /\ relationships = <<>>
    /\ graph = NoGraph /\ pc = "idle"

NextW ==
    \/ \E c \in Clients, w \in Workers : GetGraph(c, w)
    \/ \E c \in Clients, w \in Workers :
          \E path \in {PathOf(c), MissingPath} : ParseConfigs(c, w, path)
    \/ \E c \in Clients, w \in Workers : Reset(c, w)
    \/ \E c \in Clients, w \in Workers : UploadNothing(c, w)
    \/ \E c \in Clients, w \in Workers, files \in {"valid", "nonamed", "broken"} :
          UploadConfigs(c, w, files)

\* the requests of the first ten minutes of the workers: the cleanup threads
\* are in their first time.sleep(600)
SpecSession == InitW /\ [][NextW]_vars

(* SpecSweep: the cleanup threads of both workers, the clock, and the       *)
(* requests of the client that may carry the cookie of the persisted        *)
(* session.                                                                 *)

SweepClient == "c2"

NextSweep ==
    \/ \E w \in Workers : GetGraph(SweepClient, w)
    \/ \E w \in Workers : ParseConfigs(SweepClient, w, PathOf(SweepClient))
    \/ \E w \in Workers : SweepWake(w)
    \/ \E w \in Workers : SweepStat(w)
    \/ \E w \in Workers : SweepPop(w)
    \/ \E w \in Workers : SweepRmtree(w)
    \/ \E w \in Workers : SweepUnlink(w)
    \/ \E w \in Workers : SweepSleep(w)
    \/ Tick

SpecSweep == InitW /\ [][NextSweep]_vars

-----------------------------------------------------------------------------
(* Claims about the sessions *)

\* what a GET /api/graph of a client is to be answered with: the servers of
\* its own session, held by the worker or persisted for it, else the defaults
OwnOrDefault(r) ==
    IF r.held # <<>> THEN r.held
    ELSE IF r.disk # <<>> THEN r.disk
    ELSE DefaultServers

\* the servers a client other than c loaded
LoadedByOthers(c) ==
    {ServersAt(PathOf(o)) : o \in Clients \ {c}}

C23_ResetClears ==
    \A c \in Clients :
        LET r == client[c].resp IN
        /\ (r.route = "reset" /\ r.held # <<>>)
           => /\ r.status = 200
              /\ store[r.worker][r.sent] # NoSession
              /\ store[r.worker][r.sent].servers = <<>>
              /\ store[r.worker][r.sent].graph_data = NoGraphData
              /\ store[r.worker][r.sent].upload_dir = NoneDir
              /\ registry[r.sent] = NoFile
        /\ (r.route = "graph" /\ client[c].since_reset)
           => (r.status = 200 /\ r.body = DefaultServers)

\* C24: the first upload of a valid named.conf by a client without a session
\* is answered with status 200 and adds exactly one session to the store;
\* that session's upload_dir is set and the directory exists on disk.
C24_FirstUpload ==
    \A c \in Clients :
        LET r == client[c].resp IN
        (r.route = "upload" /\ r.files = "valid" /\ r.sent = NoCookie)
        => /\ r.status = 200
           /\ Cardinality(r.made) = 1
           /\ \A s \in r.made :
                 /\ store[r.worker][s] # NoSession
                 /\ "upload_dir" \in store[r.worker][s].attrs
                 /\ store[r.worker][s].upload_dir \in DOMAIN dirs

=============================================================================
